---- MODULE Spec2Model ----
(***************************************************************************)
(* Model of the AI teaching-assistant backend (aayush-kapoor/ai-ta):       *)
(*   - agent/date_utils.py      process_date_expression                    *)
(*   - agent/grading_agent.py   GradingAgent                               *)
(*   - agent/elevenlabs_agent.py ElevenLabsAgentService (knowledge base)   *)
(*   - agent/handlers.py        ActionHandlers (datastore-backed actions)  *)
(*   - agent/mylo.py            the classifier's reply (process_message)   *)
(*   - api/agent.py             the endpoints process and grade-submission *)
(* Python strings are sequences of one-character strings, so that lower(),  *)
(* strip(), replace(), "in" and ILIKE are computed character by character.  *)
(***************************************************************************)
EXTENDS Integers, Sequences, FiniteSets, TLC

VARIABLES
    dateCall,     \* last call of process_date_expression: inputs and output
    gradeCall,    \* last call of GradingAgent.grade_submission
    kbDocs,       \* documents in the external knowledge base
    kbRag,        \* documents that have a RAG index (created or requested)
    agentKB,      \* document attached to the agent's configuration (0: none)
    push,         \* the knowledge-base push in progress
    courses,      \* table "courses", in result order
    assignments,  \* table "assignments", in result order
    clock,        \* datetime.now() as read by the handlers
    last,         \* last ActionHandlers.execute call: request and outcome
    requests      \* update_assignment requests being served at the same time

vars == <<dateCall, gradeCall, kbDocs, kbRag, agentKB, push,
          courses, assignments, clock, last, requests>>

-----------------------------------------------------------------------------
(* Texts are sequences of one-character strings                           *)

\* the string literals of agent/handlers.py
Lit ==
    [NewAssignment |-> <<"N","e","w"," ","A","s","s","i","g","n","m","e","n","t">>,
     NewCourse |-> <<"N","e","w"," ","C","o","u","r","s","e">>,
     assignment |-> <<"a","s","s","i","g","n","m","e","n","t">>,
     the |-> <<"t","h","e">>,
     w_in |-> <<"i","n">>,
     course |-> <<"c","o","u","r","s","e">>,
     sp_course |-> <<" ","c","o","u","r","s","e">>,
     submissions |-> <<"s","u","b","m","i","s","s","i","o","n","s">>,
     submission |-> <<"s","u","b","m","i","s","s","i","o","n">>,
     draft |-> <<"d","r","a","f","t">>,
     published |-> <<"p","u","b","l","i","s","h","e","d">>,
     publish |-> <<"p","u","b","l","i","s","h">>,
     general |-> <<"g","e","n","e","r","a","l">>,
     conversation |-> <<"c","o","n","v","e","r","s","a","t","i","o","n">>]

\* the string literals of agent/date_utils.py
DateLit ==
    [tomorrow |-> <<"t","o","m","o","r","r","o","w">>,
     today |-> <<"t","o","d","a","y">>,
     next_week |-> <<"n","e","x","t"," ","w","e","e","k">>,
     w_in |-> <<"i","n">>,
     day |-> <<"d","a","y">>,
     in_sp |-> <<"i","n"," ">>,
     sp_day |-> <<" ","d","a","y">>,
     next_monday |-> <<"n","e","x","t"," ","m","o","n","d","a","y">>,
     next_tuesday |-> <<"n","e","x","t"," ","t","u","e","s","d","a","y">>,
     next_wednesday |-> <<"n","e","x","t"," ","w","e","d","n","e","s","d","a","y">>,
     next_thursday |-> <<"n","e","x","t"," ","t","h","u","r","s","d","a","y">>,
     next_friday |-> <<"n","e","x","t"," ","f","r","i","d","a","y">>,
     next_saturday |-> <<"n","e","x","t"," ","s","a","t","u","r","d","a","y">>,
     next_sunday |-> <<"n","e","x","t"," ","s","u","n","d","a","y">>]

\* the string literals of line 292 of agent/elevenlabs_agent.py
KBLit ==
    [c502 |-> <<"5","0","2">>,
     BadGateway |-> <<"B","a","d"," ","G","a","t","e","w","a","y">>]

\* the texts of the requests, of the date expressions and of the errors of
\* the platform in the model
Txt ==
    [CS500 |-> <<"C","S","5","0","0">>,
     cs500 |-> <<"c","s","5","0","0">>,
     MidtermExam |-> <<"M","i","d","t","e","r","m"," ","E","x","a","m">>,
     midterm |-> <<"m","i","d","t","e","r","m">>,
     MachineLearning |-> <<"M","a","c","h","i","n","e"," ","L","e","a","r","n","i","n","g">>,
     ml_assignment |-> <<"m","a","c","h","i","n","e"," ","l","e","a","r","n","i","n","g"," ","a","s","s","i","g","n","m","e","n","t">>,
     Rubric |-> <<"R">>,
     archived |-> <<"a","r","c","h","i","v","e","d">>,
     unpublish |-> <<"u","n","p","u","b","l","i","s","h">>,
     in_0_days |-> <<"i","n"," ","0"," ","d","a","y","s">>,
     in_1_day |-> <<"i","n"," ","1"," ","d","a","y">>,
     in_3_days |-> <<"i","n"," ","3"," ","d","a","y","s">>,
     in_12_days |-> <<"i","n"," ","1","2"," ","d","a","y","s">>,
     in_two_days |-> <<"i","n"," ","t","w","o"," ","d","a","y","s">>,
     Tomorrow_sp |-> <<" ","T","o","m","o","r","r","o","w"," ">>,
     tomorrow_5pm |-> <<"t","o","m","o","r","r","o","w"," ","a","t"," ","5","p","m">>,
     abs_date |-> <<"2","0","3","0","-","0","1","-","1","5">>,
     abs_datetime |-> <<"2","0","3","0","-","0","1","-","1","5"," ","1","4",":","0","0">>,
     garbage |-> <<"w","h","e","n","e","v","e","r">>,
     e502 |-> <<"s","t","a","t","u","s","_","c","o","d","e",":"," ","5","0","2">>,
     e503 |-> <<"s","t","a","t","u","s","_","c","o","d","e",":"," ","5","0","3">>,
     e500 |-> <<"s","t","a","t","u","s","_","c","o","d","e",":"," ","5","0","0">>,
     e404 |-> <<"s","t","a","t","u","s","_","c","o","d","e",":"," ","4","0","4"," ","d","o","c","_","5","0","2">>,
     status5 |-> <<"s","t","a","t","u","s","_","c","o","d","e",":"," ","5">>,
     timeout |-> <<"t","i","m","e","d"," ","o","u","t">>]
Uppers == <<"A","B","C","D","E","F","G","H","I","J","K","L","M","N","O","P","Q","R","S","T","U","V","W","X","Y","Z">>
Lowers == <<"a","b","c","d","e","f","g","h","i","j","k","l","m","n","o","p","q","r","s","t","u","v","w","x","y","z">>
Digits == <<"0","1","2","3","4","5","6","7","8","9">>

-----------------------------------------------------------------------------
(* Python str operations                                                   *)

IndexOf(seq, c) == CHOOSE i \in 1..Len(seq) : seq[i] = c
InSeq(seq, c) == \E i \in 1..Len(seq) : seq[i] = c

LowerChar(c) == IF InSeq(Uppers, c) THEN Lowers[IndexOf(Uppers, c)] ELSE c
UpperChar(c) == IF InSeq(Lowers, c) THEN Uppers[IndexOf(Lowers, c)] ELSE c

\* str.lower() / str.upper()
Lower(s) == [i \in 1..Len(s) |-> LowerChar(s[i])]
Upper(s) == [i \in 1..Len(s) |-> UpperChar(s[i])]

\* str.strip(): drops leading and trailing blanks
RECURSIVE LStrip(_)
LStrip(s) == IF s # <<>> /\ Head(s) = " " THEN LStrip(Tail(s)) ELSE s
RECURSIVE RStrip(_)
RStrip(s) == IF s # <<>> /\ s[Len(s)] = " " THEN RStrip(SubSeq(s, 1, Len(s) - 1)) ELSE s
Strip(s) == RStrip(LStrip(s))

StartsWith(s, w) == Len(s) >= Len(w) /\ SubSeq(s, 1, Len(w)) = w
EndsWith(s, w) == Len(s) >= Len(w) /\ SubSeq(s, Len(s) - Len(w) + 1, Len(s)) = w

\* "w in s"
Contains(s, w) == \E i \in 0..(Len(s) - Len(w)) : SubSeq(s, i + 1, i + Len(w)) = w

\* s.replace(w, ""): removes the non-overlapping occurrences of w, left to right
RECURSIVE Remove(_, _)
Remove(s, w) ==
    IF Len(s) < Len(w) \/ w = <<>> THEN s
    ELSE IF StartsWith(s, w) THEN Remove(SubSeq(s, Len(w) + 1, Len(s)), w)
    ELSE <<Head(s)>> \o Remove(Tail(s), w)

IsDigit(c) == InSeq(Digits, c)
\* int() of a run of digits
RECURSIVE ParseInt(_)
ParseInt(s) ==
    IF s = <<>> THEN 0
    ELSE 10 * ParseInt(SubSeq(s, 1, Len(s) - 1)) + (IndexOf(Digits, s[Len(s)]) - 1)

-----------------------------------------------------------------------------
(* Python values: None, str, int, bool and UUID strings (the id of a row)  *)

NoneV == [t |-> "none"]
StrV(s) == [t |-> "str", s |-> s]
IntV(n) == [t |-> "int", n |-> n]
BoolV(b) == [t |-> "bool", b |-> b]

\* bool(x)
Truthy(x) ==
    CASE x.t = "none" -> FALSE
      [] x.t = "str" -> x.s # <<>>
      [] x.t = "int" -> x.n # 0
      [] x.t = "bool" -> x.b
      [] x.t = "uuid" -> TRUE
      [] x.t = "list" -> x.items # <<>>

\* a or b
Or(a, b) == IF Truthy(a) THEN a ELSE b

\* dict.get(key) and dict.get(key, default)
Get(params, key) == IF key \in DOMAIN params THEN params[key] ELSE NoneV
GetDefault(params, key, default) == IF key \in DOMAIN params THEN params[key] ELSE default

-----------------------------------------------------------------------------
(* agent/date_utils.py                                                     *)
(* A datetime is [day, hour, minute, second, micro]; day counts days from  *)
(* a Monday, so that datetime.weekday() is day % 7 (Monday is 0).          *)

DT(d, h, m, s, u) == [day |-> d, hour |-> h, minute |-> m, second |-> s, micro |-> u]

Weekday(dt) == dt.day % 7

\* dt + timedelta(days=n)
AddDays(dt, n) == [dt EXCEPT !.day = @ + n]

\* the replace left out: the time of day of dt is kept
EndOfDay_TimeKept(dt) == dt

\* dt.replace(hour=23, minute=59, second=59): the microsecond is kept
EndOfDay(dt) == [dt EXCEPT !.hour = 23, !.minute = 59, !.second = 59]

\* datetime.isoformat(): "YYYY-MM-DDTHH:MM:SS", followed by ".ffffff" only
\* when the microsecond is not 0.  The text is kept as its fields in order.
IsoFormat(dt) ==
    IF dt.micro = 0
    THEN <<dt.day, dt.hour, dt.minute, dt.second>>
    ELSE <<dt.day, dt.hour, dt.minute, dt.second, dt.micro>>

\* reading an ISO text back
IsoDate(iso) == iso[1]
IsoTime(iso) == SubSeq(iso, 2, Len(iso))
IsoSecond(iso) == iso[4]
IsoMicro(iso) == IF Len(iso) = 5 THEN iso[5] ELSE 0

\* the ISO text denotes an instant strictly after dt
IsoAfter(iso, dt) ==
    \/ iso[1] > dt.day
    \/ iso[1] = dt.day /\ iso[2] > dt.hour
    \/ iso[1] = dt.day /\ iso[2] = dt.hour /\ iso[3] > dt.minute
    \/ iso[1] = dt.day /\ iso[2] = dt.hour /\ iso[3] = dt.minute /\ iso[4] > dt.second
    \/ iso[1] = dt.day /\ iso[2] = dt.hour /\ iso[3] = dt.minute /\ iso[4] = dt.second
         /\ IsoMicro(iso) > dt.micro

\* days_ahead = target - now.weekday(); if days_ahead <= 0: days_ahead += 7
DaysAhead_StrictlyNegative(target, now) ==
    LET d == target - Weekday(now) IN IF d < 0 THEN d + 7 ELSE d

DaysAhead(target, now) ==
    LET d == target - Weekday(now) IN IF d <= 0 THEN d + 7 ELSE d

WeekdayNames == <<DateLit.next_monday, DateLit.next_tuesday, DateLit.next_wednesday, DateLit.next_thursday,
                  DateLit.next_friday, DateLit.next_saturday, DateLit.next_sunday>>

\* re.search(r'in (\d+) days?', e): the positions where "in " is followed by
\* a run of digits and " day"; the first one is the match
InDaysMatches(e) ==
    {<<i, k>> \in (1..Len(e)) \X (1..Len(e)) :
        /\ i + 2 + k + 4 <= Len(e)
        /\ SubSeq(e, i, i + 2) = DateLit.in_sp
        /\ \A j \in (i + 3)..(i + 2 + k) : IsDigit(e[j])
        /\ SubSeq(e, i + 3 + k, i + 2 + k + 4) = DateLit.sp_day}

InDaysMatch(e) ==
    LET ms == InDaysMatches(e)
        first == CHOOSE m \in ms : \A n \in ms : m[1] <= n[1]
    IN IF ms = {} THEN [found |-> FALSE]
       ELSE [found |-> TRUE, days |-> ParseInt(SubSeq(e, first[1] + 3, first[1] + 2 + first[2]))]

\* dateutil.parser.parse(e): the library parses an absolute date (midnight of
\* that date) or an absolute date with a time, and raises on anything else
AbsoluteDay == 30
DateutilParse(e) ==
    IF e = Txt.abs_date THEN [ok |-> TRUE, dt |-> DT(AbsoluteDay, 0, 0, 0, 0)]
    ELSE IF e = Txt.abs_datetime THEN [ok |-> TRUE, dt |-> DT(AbsoluteDay, 14, 0, 0, 0)]
    ELSE [ok |-> FALSE]

\* lines 23-75: the target date, or the exception of the parser
TargetDate(now, e) ==
    IF e = DateLit.tomorrow THEN [ok |-> TRUE, dt |-> AddDays(now, 1)]
    ELSE IF e = DateLit.today THEN [ok |-> TRUE, dt |-> now]
    ELSE IF e = DateLit.next_week THEN [ok |-> TRUE, dt |-> AddDays(now, 7)]
    ELSE IF \E w \in 1..7 : Contains(e, WeekdayNames[w])
    THEN LET w == CHOOSE w \in 1..7 :
                    /\ Contains(e, WeekdayNames[w])
                    /\ \A v \in 1..(w - 1) : ~Contains(e, WeekdayNames[v])
         IN [ok |-> TRUE, dt |-> AddDays(now, DaysAhead(w - 1, now))]
    ELSE IF Contains(e, DateLit.w_in) /\ Contains(e, DateLit.day)
    THEN LET m == InDaysMatch(e)
         IN IF m.found THEN [ok |-> TRUE, dt |-> AddDays(now, m.days)]
            ELSE DateutilParse(e)
    ELSE DateutilParse(e)

\* lines 77-79: midnight becomes 23:59:59
EndOfDayIfMidnight(dt) ==
    IF dt.hour = 0 /\ dt.minute = 0 /\ dt.second = 0 THEN EndOfDay(dt) ELSE dt

\* process_date_expression(date_expression) called at `now`.  A value that
\* is not a str has no lower(): the except branch answers for it too.
process_date_expression(now, v) ==
    LET fallback == IsoFormat(EndOfDay(AddDays(now, 1)))
    IN IF v.t # "str" THEN fallback
       ELSE LET target == TargetDate(now, Strip(Lower(v.s)))
            IN IF target.ok THEN IsoFormat(EndOfDayIfMidnight(target.dt))
               ELSE fallback

-----------------------------------------------------------------------------
(* agent/grading_agent.py                                                  *)
(* A parsed JSON value is [t |-> "dict", d |-> <keys to values>], a list   *)
(* [t |-> "list", items |-> <sequence>] or a Python scalar.  An operation  *)
(* that can raise yields [exc |-> TRUE] or [exc |-> FALSE, val |-> v].     *)

DictV(d) == [t |-> "dict", d |-> d]
ListV(items) == [t |-> "list", items |-> items]
EmptyDict == [k \in {} |-> NoneV]

Raise == [exc |-> TRUE]
Return(v) == [exc |-> FALSE, val |-> v]

\* d[k] = v
Put(d, k, v) == [x \in (DOMAIN d) \cup {k} |-> IF x = k THEN v ELSE d[x]]
\* if k not in d: d[k] = v
PutDefault(d, k, v) == IF k \in DOMAIN d THEN d ELSE Put(d, k, v)

\* round(x, 1) of x = (grade / max_points) * 100, in tenths of a percent;
\* a tie goes to the even tenth
Percentage(grade, max_points) ==
    LET n == grade * 1000
        q == n \div max_points
        r == n % max_points
    IN IF 2 * r > max_points THEN q + 1
       ELSE IF 2 * r < max_points THEN q
       ELSE IF q % 2 = 0 THEN q ELSE q + 1

\* lines 246-250, with the lower bound left out
ClampGrade_NoLowerBound(grade, max_points) ==
    IF grade > max_points THEN max_points ELSE grade

\* lines 246-250: if grade > max_points: max_points; elif grade < 0: 0
ClampGrade(grade, max_points) ==
    IF grade > max_points THEN max_points
    ELSE IF grade < 0 THEN 0
    ELSE grade

FeedbackDefaults ==
    <<"overall", "strengths", "areas_for_improvement", "missing_elements",
      "specific_comments">>

DefaultOverall == "Grade provided without detailed feedback."

RECURSIVE FillFeedback(_, _)
FillFeedback(fb, i) ==
    IF i > Len(FeedbackDefaults) THEN fb
    ELSE FillFeedback(
            PutDefault(fb, FeedbackDefaults[i],
                       IF i = 1 THEN StrV(DefaultOverall) ELSE ListV(<<>>)),
            i + 1)

\* lines 278-282: defaults of each rubric_breakdown entry
FillBreakdown(items) ==
    [i \in 1..Len(items) |->
        PutDefault(PutDefault(items[i], "found_in_submission", BoolV(TRUE)),
                   "quality_assessment", StrV("Assessment not provided"))]

\* confidence levels are kept in hundredths: 0.8 is 80
DefaultConfidence == 80
FallbackConfidence == 60

\* GradingAgent._validate_grading_result(result, max_points)
_validate_grading_result(result, max_points) ==
    IF result.t # "dict" THEN Raise                       \* result.get: AttributeError
    ELSE LET d0 == result.d
             g0 == GetDefault(d0, "grade", IntV(0))
         IN IF g0.t # "int" THEN Raise                     \* grade > max_points: TypeError
            ELSE IF max_points = 0 THEN Raise              \* ZeroDivisionError
            ELSE LET grade == ClampGrade(g0.n, max_points)
                     d1 == Put(Put(d0, "grade", IntV(grade)),
                               "percentage", IntV(Percentage(grade, max_points)))
                     d2 == PutDefault(d1, "feedback", DictV(EmptyDict))
                 IN IF d2["feedback"].t # "dict" THEN Raise   \* item assignment: TypeError
                    ELSE LET d3 == Put(d2, "feedback", DictV(FillFeedback(d2["feedback"].d, 1)))
                             d4 == PutDefault(d3, "rubric_breakdown", ListV(<<>>))
                             d5 == Put(d4, "rubric_breakdown",
                                       ListV(FillBreakdown(d4["rubric_breakdown"].items)))
                             d6 == IF "confidence_level" \notin DOMAIN d5
                                      \/ ~(0 <= d5["confidence_level"].n
                                           /\ d5["confidence_level"].n <= 100)
                                   THEN Put(d5, "confidence_level", IntV(DefaultConfidence))
                                   ELSE d5
                             d7 == PutDefault(d6, "recommendations", ListV(<<>>))
                         IN Return(DictV(d7))

\* lines 303-312: the first line that names a grade or a score and whose
\* first number is at most max_points gives the grade.  A line of the reply
\* is [kw |-> it contains "grade" or "score", nums |-> re.findall(r'\d+')].
RECURSIVE ScanGrade(_, _)
ScanGrade(lines, max_points) ==
    IF lines = <<>> THEN 0
    ELSE LET line == Head(lines)
         IN IF line.kw /\ line.nums # <<>> /\ line.nums[1] <= max_points
            THEN line.nums[1]
            ELSE ScanGrade(Tail(lines), max_points)

\* GradingAgent._parse_text_response(response_text, max_points)
_parse_text_response(lines, max_points) ==
    LET grade == ScanGrade(lines, max_points)
    IN IF max_points = 0 THEN Raise                        \* ZeroDivisionError
       ELSE Return(
            [success |-> TRUE,
             grade |-> IntV(grade),
             feedback |-> [t |-> "text", lines |-> lines],
             detailed_result |-> DictV(
                [grade |-> IntV(grade),
                 percentage |-> IntV(Percentage(grade, max_points)),
                 feedback |-> DictV([overall |-> [t |-> "text", lines |-> lines]]),
                 confidence_level |-> IntV(FallbackConfidence)])])

GradingError ==
    [success |-> FALSE,
     error |-> StrV("exception"),
     grade |-> IntV(0),
     feedback |-> StrV("Sorry, I encountered an error while grading this submission. Please try again or grade manually.")]

\* GradingAgent.grade_submission(..., max_points) for one outcome of the LLM
\* call: the call raises, or it returns a reply whose content is None, a
\* JSON text (given parsed) or a text json.loads rejects (given as lines)
grade_submission(reply, max_points) ==
    IF reply.kind = "api_error" THEN Return(GradingError)
    ELSE IF reply.kind = "none" THEN Return(GradingError)   \* json.loads(None): TypeError
    ELSE IF reply.kind = "json"
    THEN LET v == _validate_grading_result(reply.value, max_points)
         IN IF v.exc THEN Return(GradingError)
            ELSE Return([success |-> TRUE,
                         grade |-> v.val.d["grade"],
                         feedback |-> v.val.d["feedback"].d["overall"],
                         detailed_result |-> v.val])
    ELSE LET p == _parse_text_response(reply.lines, max_points)
         IN IF p.exc THEN Return(GradingError) ELSE p

-----------------------------------------------------------------------------
(* agent/elevenlabs_agent.py: the knowledge-base push                      *)
(* update_knowledge_base_all_students is a chain of calls to the external   *)
(* platform; the model takes one step per call (or per loop of calls) and   *)
(* lets each call succeed or raise.                                         *)

\* the errors agents.update raises in the model
AttachErrors == {Txt.e502, KBLit.BadGateway, Txt.e503, Txt.e500, Txt.e404, Txt.timeout}

\* max_retries = 3
MaxRetries == 3
\* retry_delay = 20 (seconds)
RetryDelay == 20

\* the most documents the knowledge base holds in the model
MaxDocs == 3
DocIds == 1..MaxDocs

\* an upstream error of the 5xx class: its text names a status 5xx
Is5xx(err) == Contains(err, Txt.status5) \/ Contains(err, KBLit.BadGateway)

\* a test for every upstream error of the 5xx class
IsBadGateway_Any5xx(err) == Is5xx(err)

\* line 292: "502" in error_str or "Bad Gateway" in error_str
IsBadGateway(err) == Contains(err, KBLit.c502) \/ Contains(err, KBLit.BadGateway)

\* line 231, without the test: every listed document is a candidate
CleanupCandidates_All(docs, keep_doc_id) == docs

\* line 231: if doc.id != keep_doc_id
CleanupCandidates(docs, keep_doc_id) == docs \ {keep_doc_id}

\* the knowledge base and the configuration of the agent, as a call finds them
KBState(docs, rag, agent) == [docs |-> docs, rag |-> rag, agent |-> agent]

\* calls counts the agent-update calls of the push, err is the text of the
\* exception of the last such call (empty when it returned), slept the
\* seconds slept before retries; context is all_students_context, before
\* the knowledge base at the start of the call
PushIdle ==
    [pc |-> "idle", newDoc |-> 0, attempt |-> 0, n502 |-> 0,
     attach |-> "pending", ret |-> "pending", calls |-> 0, err |-> <<>>, slept |-> 0,
     context |-> "pending", before |-> KBState({}, {}, 0)]

\* lines 260-262: a pass after the first one starts with the delay
SleptAfterPass(p) == IF p.attempt > 0 THEN p.slept + RetryDelay ELSE p.slept

\* the variables the push leaves alone
notKB == <<dateCall, gradeCall, courses, assignments, clock, last, requests>>

\* a new call of update_knowledge_base_all_students
KBStart ==
    /\ push.pc \in {"idle", "done"}
    /\ push' = [PushIdle EXCEPT !.pc = "rag_delete", !.before = KBState(kbDocs, kbRag, agentKB)]
    /\ UNCHANGED <<kbDocs, kbRag, agentKB>>
    /\ UNCHANGED notKB

\* a first step that deletes the documents along with their indices
KBDeleteRagIndices_WithDocuments ==
    /\ push.pc = "rag_delete"
    /\ kbRag' = {}
    /\ kbDocs' = {}
    /\ push' = [push EXCEPT !.pc = "build"]
    /\ UNCHANGED agentKB
    /\ UNCHANGED notKB

\* _delete_existing_rag_indices: lists the documents and deletes the indices
\* of each; a failed list or delete is logged and skipped
KBDeleteRagIndices ==
    /\ push.pc = "rag_delete"
    /\ \E deleted \in SUBSET kbRag :
          kbRag' = kbRag \ deleted
    /\ push' = [push EXCEPT !.pc = "build"]
    /\ UNCHANGED <<kbDocs, agentKB>>
    /\ UNCHANGED notKB

\* lines 110-115: build_context_for_all_students returns the context, or
\* None (course not found, no enrolled student), or raises
KBBuildContext ==
    /\ push.pc = "build"
    /\ \E outcome \in {"context", "None", "raise"} :
          push' = IF outcome = "context"
                  THEN [push EXCEPT !.pc = "upload", !.context = "context"]
                  ELSE [push EXCEPT !.pc = "done", !.ret = "False", !.context = outcome]
    /\ UNCHANGED <<kbDocs, kbRag, agentKB>>
    /\ UNCHANGED notKB

\* lines 131-136: documents.create_from_text; the platform names the new
\* document with an id no document has (the least one, in the model)
KBUpload ==
    /\ push.pc = "upload"
    /\ \/ /\ DocIds \ (kbDocs \cup {agentKB}) # {}
          /\ LET id == CHOOSE i \in DocIds \ (kbDocs \cup {agentKB}) :
                          \A j \in DocIds \ (kbDocs \cup {agentKB}) : i <= j
             IN /\ kbDocs' = kbDocs \cup {id}
                /\ push' = [push EXCEPT !.pc = "rag_create", !.newDoc = id]
       \/ /\ kbDocs' = kbDocs
          /\ push' = [push EXCEPT !.pc = "done", !.ret = "False"]
    /\ UNCHANGED <<kbRag, agentKB>>
    /\ UNCHANGED notKB

\* _create_rag_index: requests the index and does not wait for it; a failure
\* is logged
KBCreateRagIndex ==
    /\ push.pc = "rag_create"
    /\ \E ok \in BOOLEAN :
          kbRag' = IF ok THEN kbRag \cup {push.newDoc} ELSE kbRag
    /\ push' = [push EXCEPT !.pc = "cleanup"]
    /\ UNCHANGED <<kbDocs, agentKB>>
    /\ UNCHANGED notKB

\* _cleanup_old_documents(keep_doc_id): deletes the listed documents other
\* than keep_doc_id; a failed list or delete is logged and skipped
KBCleanup ==
    /\ push.pc = "cleanup"
    /\ \E deleted \in SUBSET CleanupCandidates(kbDocs, push.newDoc) :
          /\ kbDocs' = kbDocs \ deleted
          /\ kbRag' = kbRag \ deleted
    /\ push' = [push EXCEPT !.pc = "attach"]
    /\ UNCHANGED agentKB
    /\ UNCHANGED notKB

\* _attach_knowledge_base_to_agent: one pass of the retry loop
KBAttachOk ==
    /\ push.pc = "attach"
    /\ agentKB' = push.newDoc
    /\ push' = [push EXCEPT !.pc = "return", !.attach = "True", !.calls = @ + 1,
                             !.err = <<>>, !.slept = SleptAfterPass(push)]
    /\ UNCHANGED <<kbDocs, kbRag>>
    /\ UNCHANGED notKB

\* a retry loop without the test of line 294: a 502 is retried for ever
KBAttachFail_Unbounded ==
    /\ push.pc = "attach"
    /\ \E err \in AttachErrors :
          push' = [IF IsBadGateway(err)
                   THEN [push EXCEPT !.attempt = @ + 1, !.n502 = @ + 1]
                   ELSE [push EXCEPT !.pc = "return", !.attach = "False"]
                     EXCEPT !.calls = @ + 1, !.err = err, !.slept = SleptAfterPass(push)]
    /\ UNCHANGED <<kbDocs, kbRag, agentKB>>
    /\ UNCHANGED notKB

KBAttachFail ==
    /\ push.pc = "attach"
    /\ \E err \in AttachErrors :
          push' = [IF IsBadGateway(err)
                   THEN IF push.attempt < MaxRetries - 1
                        THEN [push EXCEPT !.attempt = @ + 1, !.n502 = @ + 1]
                        ELSE [push EXCEPT !.pc = "return", !.n502 = @ + 1,
                                          !.attach = "False"]
                   ELSE [push EXCEPT !.pc = "return", !.attach = "False"]
                     EXCEPT !.calls = @ + 1, !.err = err, !.slept = SleptAfterPass(push)]
    /\ UNCHANGED <<kbDocs, kbRag, agentKB>>
    /\ UNCHANGED notKB

\* line 153: return True, whatever the attachment returned
KBReturn ==
    /\ push.pc = "return"
    /\ push' = [push EXCEPT !.pc = "done", !.ret = "True"]
    /\ UNCHANGED <<kbDocs, kbRag, agentKB>>
    /\ UNCHANGED notKB

-----------------------------------------------------------------------------
(* agent/handlers.py: the datastore                                        *)
(* A course row is [id, title, teacher_id]; an assignment row is           *)
(* [id, course_id, title, status, due_date, total_points, rubric].  The    *)
(* description and the created_at/updated_at columns are left out.  A      *)
(* select returns the rows of the table in table order.  Row-level         *)
(* security is configured outside the repository: a select returns every   *)
(* matching row, as it does for the service-role client.                   *)

\* the most rows the courses table and the assignments table hold in the model
MaxCourses == 2
MaxAssignments == 1

\* uuid.uuid4(): an id no row of the table has (the first unused one)
CourseIdPool == <<"c1", "c2", "c3", "c4">>
AssignmentIdPool == <<"a1", "a2", "a3", "a4">>

\* an id generator that repeats itself: always the first id
FreshId_Repeating(pool, rows) == pool[1]

FreshId(pool, rows) ==
    pool[CHOOSE i \in 1..Len(pool) :
            /\ \A k \in 1..Len(rows) : rows[k].id # pool[i]
            /\ \A j \in 1..(i - 1) : \E k \in 1..Len(rows) : rows[k].id = pool[j]]

\* the text of a UUID: one opaque token and the id; no title contains it and
\* lower(), strip() and replace() leave it as it is
UuidText(id) == <<"uuid:", id>>
\* lines 1032-1033: re.match(uuid_pattern, identifier)
IsUuid(s) == Len(s) = 2 /\ s[1] = "uuid:"
\* line 1097: len(identifier) == 36
UuidLength == 36
HasUuidLength(s) == IsUuid(s) \/ Len(s) = UuidLength

\* .ilike("title", pattern) without wildcard and with %pattern%
ILike(title, pattern) == Lower(title) = Lower(pattern)
ILikeContains(title, pattern) == Contains(Lower(title), Lower(pattern))

\* the datastore call of shape `shape` raises in this request
Raises(fault, shape) == fault.shape = shape
\* the update or delete of assignment `id` raises in this request
WriteRaises(fault, id) == fault.shape = "assignments.write" /\ id \in fault.rows

NoFault == [shape |-> "none", rows |-> {}]

\* the outcome of a handler (or of a part of one): the result it returns or
\* the exception that leaves it, the tables as it leaves them, whether a
\* datastore call raised on the way, and whether the outermost except
\* clause of the handler (or of execute) built the result
Res(success, message, data) == [success |-> success, message |-> message, data |-> data]
NoRes == Res(FALSE, "", NoneV)
Ok(res, c, a, raised) ==
    [exc |-> FALSE, res |-> res, c |-> c, a |-> a, raised |-> raised, outer |-> FALSE]
Exc(c, a) ==
    [exc |-> TRUE, res |-> NoRes, c |-> c, a |-> a, raised |-> TRUE, outer |-> FALSE]

ErrorData == DictV([error |-> StrV("exception")])

\* the handler without its try/except: an exception leaves it
NoCatch(o, message) == o

\* try: ... except Exception: return {"success": False, "message": ..., "data": {"error": ...}}
Catch(o, message) ==
    IF o.exc
    THEN [exc |-> FALSE, res |-> Res(FALSE, message, ErrorData), c |-> o.c, a |-> o.a,
          raised |-> TRUE, outer |-> TRUE]
    ELSE o

RowsWhere(rows, Test(_)) == SelectSeq(rows, Test)

\* an intermediate result v, named in what follows
Bind(v, Rest(_)) == Rest(v)

CourseById(c, id) == RowsWhere(c, LAMBDA r : r.id = id)
AssignmentsOfCourse(a, course_id) == RowsWhere(a, LAMBDA r : r.course_id = course_id)

\* lines 1092-1094 and 144-146: strip, and drop a trailing " course"
CleanCourseName(s) ==
    LET c == Strip(s)
    IN IF EndsWith(Lower(c), Lit.sp_course) THEN Strip(SubSeq(c, 1, Len(c) - 7)) ELSE c

\* lines 1107-1111 and 152-156: exact ILIKE match, else partial match.
\* [exc, rows]
CoursesByTitle(c, cleaned, fault) ==
    IF Raises(fault, "courses.select.title") THEN [exc |-> TRUE, rows |-> <<>>]
    ELSE LET exact == RowsWhere(c, LAMBDA r : ILike(r.title, cleaned))
         IN [exc |-> FALSE,
             rows |-> IF exact # <<>> THEN exact
                      ELSE RowsWhere(c, LAMBDA r : ILikeContains(r.title, cleaned))]

NotFound(raised) == [found |-> FALSE, row |-> [id |-> ""], raised |-> raised]
Found(row) == [found |-> TRUE, row |-> row, raised |-> FALSE]

\* the filter of line 1116, left out
OwnedBy_Anyone(rows, user_id) == rows

\* lines 1116 and 160: [course for course in result.data if course["teacher_id"] == user_id]
OwnedBy(rows, user_id) == RowsWhere(rows, LAMBDA r : r.teacher_id = user_id)

\* ActionHandlers._find_course(identifier, db_client, user_id); a handler
\* always passes a user_id.  An exception is logged and None returned.
_find_course(identifier, user_id, c, fault) ==
    IF identifier.t # "str" THEN NotFound(FALSE)            \* identifier.strip(): AttributeError
    ELSE
    LET cleaned == CleanCourseName(identifier.s)
        byId == IF IsUuid(identifier.s) THEN CourseById(c, identifier.s[2]) ELSE <<>>
    IN IF HasUuidLength(identifier.s) /\ Raises(fault, "courses.select.id")
       THEN NotFound(TRUE)
       ELSE IF HasUuidLength(identifier.s) /\ byId # <<>>
       THEN IF byId[1].teacher_id # user_id THEN NotFound(FALSE) ELSE Found(byId[1])
       ELSE Bind(CoursesByTitle(c, cleaned, fault), LAMBDA q :
            IF q.exc THEN NotFound(TRUE)
            ELSE Bind(OwnedBy(q.rows, user_id), LAMBDA mine :
                 IF mine # <<>> THEN Found(mine[1]) ELSE NotFound(FALSE)))

\* ActionHandlers._find_assignment(identifier, db_client, user_id).  An
\* exception is logged and None returned.
_find_assignment(identifier, user_id, c, a, fault) ==
    IF identifier.t # "str" THEN NotFound(FALSE)            \* re.match: TypeError
    ELSE
    LET s == identifier.s
        byId == IF IsUuid(s) THEN RowsWhere(a, LAMBDA r : r.id = s[2]) ELSE <<>>
        byTitle == RowsWhere(a, LAMBDA r : ILikeContains(r.title, s))
        keywords == Strip(Remove(Remove(Lower(s), Lit.assignment), Lit.the))
    IN IF IsUuid(s) /\ Raises(fault, "assignments.select.id") THEN NotFound(TRUE)
       ELSE IF byId # <<>> THEN Found(byId[1])
       ELSE IF Raises(fault, "assignments.select.title") THEN NotFound(TRUE)
       ELSE IF byTitle # <<>> THEN Found(byTitle[1])
       ELSE IF Contains(Lower(s), Lit.assignment) /\ keywords # <<>>
       THEN Bind(_find_course(StrV(keywords), user_id, c, fault), LAMBDA course :
            IF ~course.found THEN NotFound(course.raised)
            ELSE IF Raises(fault, "assignments.select.course_id") THEN NotFound(TRUE)
            ELSE LET rows == AssignmentsOfCourse(a, course.row.id)
                 IN IF rows # <<>> THEN Found(rows[1]) ELSE NotFound(FALSE))
       ELSE NotFound(FALSE)

-----------------------------------------------------------------------------
(* agent/handlers.py: the handlers.  Each takes the parameter map, the      *)
(* caller, the tables, the time and the fault of the request, and yields    *)
(* an outcome.                                                              *)

\* lines 206-210, 466-470, 546-550, 693-697, 1136-1140
AssignmentIdentifier(params) ==
    Or(Or(Get(params, "assignment_id"), Get(params, "assignment_name")), Get(params, "title"))

\* ActionHandlers._find_or_create_course(course_code, user_id, db_client):
\* [id ("" for None), c, raised]
_find_or_create_course(course_code, user_id, c, fault) ==
    Bind(CleanCourseName(course_code), LAMBDA cleaned :
    Bind(CoursesByTitle(c, cleaned, fault), LAMBDA q :
    Bind(OwnedBy(q.rows, user_id), LAMBDA mine :
    Bind(FreshId(CourseIdPool, c), LAMBDA id :
      IF q.exc THEN [id |-> "", c |-> c, raised |-> TRUE]
      ELSE IF mine # <<>> THEN [id |-> mine[1].id, c |-> c, raised |-> FALSE]
      ELSE IF Raises(fault, "courses.insert") THEN [id |-> "", c |-> c, raised |-> TRUE]
      ELSE [id |-> id,
            c |-> Append(c, [id |-> id, title |-> cleaned, teacher_id |-> user_id]),
            raised |-> FALSE]))))

DefaultDueDays == 7
DefaultPoints == 100

\* ActionHandlers.create_assignment
create_assignment(params, user_id, c, a, now, fault) ==
    Catch(
        LET title == GetDefault(params, "title", StrV(Lit.NewAssignment))
            course == GetDefault(params, "course", StrV(<<>>))
            points == GetDefault(params, "points", IntV(DefaultPoints))
            publish == GetDefault(params, "publish", BoolV(FALSE))
        IN IF course.t # "str" THEN Exc(c, a)                   \* .upper(): AttributeError
           ELSE
           Bind(_find_or_create_course(Upper(course.s), user_id, c, fault), LAMBDA fc :
           Bind([id |-> FreshId(AssignmentIdPool, a),
                 course_id |-> fc.id,
                 title |-> title.s,
                 status |-> IF Truthy(publish) THEN Lit.published ELSE Lit.draft,
                 due_date |-> IsoFormat(AddDays(now, DefaultDueDays)),
                 total_points |-> points.n,
                 rubric |-> NoneV], LAMBDA row :
             IF fc.id = ""
             THEN Ok(Res(FALSE, "I couldn't find or create course.", NoneV), fc.c, a, fc.raised)
             ELSE IF Raises(fault, "assignments.insert") THEN Exc(fc.c, a)
             ELSE Ok(Res(TRUE, "Created assignment.",
                         DictV([assignment_id |-> StrV(UuidText(row.id)),
                                status |-> StrV(row.status)])),
                     fc.c, Append(a, row), fc.raised))),
    "I encountered an error while creating the assignment.")

\* lines 215 and 321
NewTitle(params) ==
    Or(Get(params, "new_title"),
       IF "assignment_name" \in DOMAIN params \/ "assignment_id" \in DOMAIN params
       THEN Get(params, "title") ELSE NoneV)

\* the ownership test of lines 311-312, 493-494, 645-646: [exc, owner]
OwnerCheck(assignment, user_id, c, fault) ==
    IF Raises(fault, "courses.select.id") THEN [exc |-> TRUE, owner |-> FALSE]
    ELSE LET rows == CourseById(c, assignment.course_id)
         IN [exc |-> FALSE, owner |-> rows # <<>> /\ rows[1].teacher_id = user_id]

\* .update(update_data).eq("id", id): the table with the row patched
UpdateRow(a, id, Patch(_)) == [i \in 1..Len(a) |-> IF a[i].id = id THEN Patch(a[i]) ELSE a[i]]
\* .delete().eq("id", id)
DeleteRow(a, id) == RowsWhere(a, LAMBDA r : r.id # id)

\* lines 328-347: the patch of _update_single_assignment
UpdatePatch(row, params, now) ==
    LET new_title == NewTitle(params)
        points == Get(params, "points")
        due_date == Get(params, "due_date")
        status == Get(params, "status")
        r1 == IF Truthy(new_title) THEN [row EXCEPT !.title = new_title.s] ELSE row
        r2 == IF Truthy(points) THEN [r1 EXCEPT !.total_points = points.n] ELSE r1
        r3 == IF Truthy(due_date)
              THEN [r2 EXCEPT !.due_date = process_date_expression(now, due_date)] ELSE r2
        r4 == IF Truthy(status) THEN [r3 EXCEPT !.status = status.s] ELSE r3
    IN r4

HasChanges(params) ==
    \/ Truthy(NewTitle(params))
    \/ Truthy(Get(params, "description"))
    \/ Truthy(Get(params, "points"))
    \/ Truthy(Get(params, "due_date"))
    \/ Truthy(Get(params, "status"))

\* ActionHandlers._update_single_assignment
_update_single_assignment(assignment, params, user_id, c, a, now, fault) ==
    Catch(
        LET check == OwnerCheck(assignment, user_id, c, fault)
        IN IF check.exc THEN Exc(c, a)
           ELSE IF ~check.owner
           THEN Ok(Res(FALSE, "You can only update assignments in your own courses.", NoneV),
                   c, a, FALSE)
           ELSE IF ~HasChanges(params)
           THEN Ok(Res(FALSE, "I need to know what you want to update about the assignment.", NoneV),
                   c, a, FALSE)
           ELSE IF WriteRaises(fault, assignment.id) THEN Exc(c, a)
           ELSE Ok(Res(TRUE, "Updated assignment.",
                       DictV([assignment_id |-> StrV(UuidText(assignment.id))])),
                   c, UpdateRow(a, assignment.id, LAMBDA r : UpdatePatch(r, params, now)), FALSE),
    "I encountered an error while updating the assignment.")

\* a summary that calls a bulk operation failed as soon as one item failed
BulkResult_AllOrNothing(ok, failed, raised, c, a, what) ==
    IF failed = <<>> /\ ok # <<>>
    THEN Ok(Res(TRUE, "Successfully " \o what \o " assignments.",
                DictV([successful_assignments |-> ok])), c, a, raised)
    ELSE Ok(Res(FALSE, "Failed to " \o what \o " any assignments.",
                DictV([successful_assignments |-> ok, failed_assignments |-> failed])),
            c, a, raised)

\* the summary of a bulk operation (lines 418-448 and 1286-1317)
BulkResult(ok, failed, raised, c, a, what) ==
    IF ok # <<>> /\ failed = <<>>
    THEN Ok(Res(TRUE, "Successfully " \o what \o " assignments.",
                DictV([successful_assignments |-> ok])), c, a, raised)
    ELSE IF ok # <<>>
    THEN Ok(Res(TRUE, "Partially " \o what \o " assignments.",
                DictV([successful_assignments |-> ok, failed_assignments |-> failed])),
            c, a, raised)
    ELSE Ok(Res(FALSE, "Failed to " \o what \o " any assignments.",
                DictV([failed_assignments |-> failed])), c, a, raised)

\* lines 393-402: the loop over the assignments read at the start
RECURSIVE UpdateEach(_, _, _, _, _, _, _, _, _, _)
UpdateEach(todo, params, user_id, c, a, now, fault, ok, failed, raised) ==
    IF todo = <<>> THEN [ok |-> ok, failed |-> failed, a |-> a, raised |-> raised]
    ELSE Bind(_update_single_assignment(Head(todo), params, user_id, c, a, now, fault),
              LAMBDA o :
              UpdateEach(Tail(todo), params, user_id, c, o.a, now, fault,
                         IF o.res.success THEN Append(ok, Head(todo).title) ELSE ok,
                         IF o.res.success THEN failed ELSE Append(failed, Head(todo).title),
                         raised \/ o.raised))

\* ActionHandlers._update_multiple_assignments
_update_multiple_assignments(rows, params, user_id, c, a, now, fault) ==
    Bind(UpdateEach(rows, params, user_id, c, a, now, fault, <<>>, <<>>, FALSE), LAMBDA r :
         BulkResult(r.ok, r.failed, r.raised, c, r.a, "updated"))

\* lines 243-246, 573-574, 1164-1167: the course keywords of an identifier
CourseKeywords(s) ==
    Strip(Remove(Remove(Remove(Remove(Lower(s), Lit.assignment), Lit.the), Lit.w_in), Lit.course))

NothingFound(c, a, raised) ==
    Ok(Res(FALSE, "I couldn't find any assignment or course matching the identifier.", NoneV),
       c, a, raised)

\* ActionHandlers.update_assignment
update_assignment(params, user_id, c, a, now, fault) ==
    Catch(
        LET identifier == AssignmentIdentifier(params)
        IN IF ~Truthy(identifier)
           THEN Ok(Res(FALSE, "I need an assignment name or course name to update assignments.",
                       NoneV), c, a, FALSE)
           ELSE
           Bind(_find_assignment(identifier, user_id, c, a, fault), LAMBDA found :
             IF found.found
             THEN _update_single_assignment(found.row, params, user_id, c, a, now, fault)
             ELSE IF identifier.t # "str" THEN Exc(c, a)         \* .lower(): AttributeError
             ELSE
             Bind(CourseKeywords(identifier.s), LAMBDA keywords :
             Bind(IF keywords # <<>> THEN _find_course(StrV(keywords), user_id, c, fault)
                  ELSE NotFound(FALSE), LAMBDA course :
             Bind(found.raised \/ course.raised, LAMBDA raised :
               IF ~course.found THEN NothingFound(c, a, raised)
               ELSE IF Raises(fault, "assignments.select.course_id") THEN Exc(c, a)
               ELSE
               Bind(AssignmentsOfCourse(a, course.row.id), LAMBDA rows :
                 IF rows = <<>>
                 THEN Ok(Res(FALSE, "No assignments found in course.", NoneV), c, a, raised)
                 ELSE IF Len(rows) = 1
                 THEN [_update_single_assignment(rows[1], params, user_id, c, a, now, fault)
                         EXCEPT !.raised = @ \/ raised]
                 ELSE [_update_multiple_assignments(rows, params, user_id, c, a, now, fault)
                         EXCEPT !.raised = @ \/ raised]))))),
    "I encountered an error while updating the assignment.")

\* ActionHandlers.update_rubric
update_rubric(params, user_id, c, a, now, fault) ==
    Catch(
        LET identifier == AssignmentIdentifier(params)
            rubric_text == Or(Get(params, "rubric_text"), Get(params, "rubric"))
        IN IF ~Truthy(identifier) \/ ~Truthy(rubric_text)
           THEN Ok(Res(FALSE, "I need both an assignment name and the new rubric content.", NoneV),
                   c, a, FALSE)
           ELSE
           Bind(_find_assignment(identifier, user_id, c, a, fault), LAMBDA found :
           Bind(OwnerCheck(found.row, user_id, c, fault), LAMBDA check :
             IF ~found.found
             THEN Ok(Res(FALSE, "I couldn't find assignment.", NoneV), c, a, found.raised)
             ELSE IF check.exc THEN Exc(c, a)
             ELSE IF ~check.owner
             THEN Ok(Res(FALSE, "You can only update rubrics for assignments in your own courses.",
                         NoneV), c, a, FALSE)
             ELSE IF WriteRaises(fault, found.row.id) THEN Exc(c, a)
             ELSE Ok(Res(TRUE, "Updated rubric for assignment.",
                         DictV([assignment_id |-> StrV(UuidText(found.row.id))])),
                     c, UpdateRow(a, found.row.id, LAMBDA r : [r EXCEPT !.rubric = rubric_text]),
                     FALSE))),
    "I encountered an error while updating the rubric.")

\* ActionHandlers._delete_single_assignment
_delete_single_assignment(assignment, user_id, c, a, fault) ==
    Catch(
        LET check == OwnerCheck(assignment, user_id, c, fault)
        IN IF check.exc THEN Exc(c, a)
           ELSE IF ~check.owner
           THEN Ok(Res(FALSE, "You can only delete assignments in your own courses.", NoneV),
                   c, a, FALSE)
           ELSE IF WriteRaises(fault, assignment.id) THEN Exc(c, a)
           ELSE Ok(Res(TRUE, "Successfully deleted assignment.",
                       DictV([assignment_id |-> StrV(UuidText(assignment.id))])),
                   c, DeleteRow(a, assignment.id), FALSE),
    "I encountered an error while deleting the assignment.")

\* ActionHandlers.delete_assignment
delete_assignment(params, user_id, c, a, now, fault) ==
    Catch(
        LET identifier == AssignmentIdentifier(params)
        IN IF ~Truthy(identifier)
           THEN Ok(Res(FALSE, "I need an assignment name or course name to delete assignments.",
                       NoneV), c, a, FALSE)
           ELSE
           Bind(_find_assignment(identifier, user_id, c, a, fault), LAMBDA found :
             IF found.found THEN _delete_single_assignment(found.row, user_id, c, a, fault)
             ELSE IF identifier.t # "str" THEN Exc(c, a)
             ELSE
             Bind(CourseKeywords(identifier.s), LAMBDA keywords :
             Bind(IF keywords # <<>> THEN _find_course(StrV(keywords), user_id, c, fault)
                  ELSE NotFound(FALSE), LAMBDA course :
             Bind(found.raised \/ course.raised, LAMBDA raised :
               IF ~course.found THEN NothingFound(c, a, raised)
               ELSE IF Raises(fault, "assignments.select.course_id") THEN Exc(c, a)
               ELSE
               Bind(AssignmentsOfCourse(a, course.row.id), LAMBDA rows :
                 IF rows = <<>>
                 THEN Ok(Res(FALSE, "No assignments found in course.", NoneV), c, a, raised)
                 ELSE IF Len(rows) = 1
                 THEN [_delete_single_assignment(rows[1], user_id, c, a, fault)
                         EXCEPT !.raised = @ \/ raised]
                 ELSE Ok(Res(FALSE, "Please specify which one you want to delete.",
                             DictV([assignments |-> [i \in 1..Len(rows) |-> rows[i].title]])),
                         c, a, raised)))))),
    "I encountered an error while trying to delete the assignment.")

\* lines 1228 and 1264
NewStatus(action) == IF action = StrV(Lit.publish) THEN Lit.published ELSE Lit.draft

\* ActionHandlers._publish_single_assignment
_publish_single_assignment(assignment, action, c, a, fault) ==
    Catch(
        IF WriteRaises(fault, assignment.id) THEN Exc(c, a)
        ELSE Ok(Res(TRUE, "Assignment status has been changed.",
                    DictV([assignment_id |-> StrV(UuidText(assignment.id)),
                           new_status |-> StrV(NewStatus(action))])),
                c, UpdateRow(a, assignment.id, LAMBDA r : [r EXCEPT !.status = NewStatus(action)]),
                FALSE),
    "Failed to update assignment status.")

\* lines 1273-1282: the loop over the assignments read at the start
RECURSIVE PublishEach(_, _, _, _, _, _, _)
PublishEach(todo, action, a, fault, ok, failed, raised) ==
    IF todo = <<>> THEN [ok |-> ok, failed |-> failed, a |-> a, raised |-> raised]
    ELSE LET id == Head(todo).id
             bad == WriteRaises(fault, id)
         IN PublishEach(Tail(todo), action,
                        IF bad THEN a
                        ELSE UpdateRow(a, id, LAMBDA r : [r EXCEPT !.status = NewStatus(action)]),
                        fault,
                        IF bad THEN ok ELSE Append(ok, Head(todo).title),
                        IF bad THEN Append(failed, Head(todo).title) ELSE failed,
                        raised \/ bad)

\* ActionHandlers._publish_multiple_assignments
_publish_multiple_assignments(rows, action, c, a, fault) ==
    Bind(PublishEach(rows, action, a, fault, <<>>, <<>>, FALSE), LAMBDA r :
         BulkResult(r.ok, r.failed, r.raised, c, r.a, "published"))

\* ActionHandlers.publish_assignment
publish_assignment(params, user_id, c, a, now, fault) ==
    Catch(
        LET identifier == AssignmentIdentifier(params)
            action == GetDefault(params, "action", StrV(Lit.publish))
        IN IF ~Truthy(identifier)
           THEN Ok(Res(FALSE,
                       "I need an assignment name or course name to publish/unpublish assignments.",
                       NoneV), c, a, FALSE)
           ELSE
           Bind(_find_assignment(identifier, user_id, c, a, fault), LAMBDA found :
             IF found.found THEN _publish_single_assignment(found.row, action, c, a, fault)
             ELSE IF identifier.t # "str" THEN Exc(c, a)
             ELSE
             Bind(CourseKeywords(identifier.s), LAMBDA keywords :
             Bind(IF keywords # <<>> THEN _find_course(StrV(keywords), user_id, c, fault)
                  ELSE NotFound(FALSE), LAMBDA course :
             Bind(found.raised \/ course.raised, LAMBDA raised :
               IF ~course.found THEN NothingFound(c, a, raised)
               ELSE IF Raises(fault, "assignments.select.course_id") THEN Exc(c, a)
               ELSE
               Bind(AssignmentsOfCourse(a, course.row.id), LAMBDA rows :
                 IF rows = <<>>
                 THEN Ok(Res(FALSE, "No assignments found in course.", NoneV), c, a, raised)
                 ELSE IF Len(rows) = 1
                 THEN [_publish_single_assignment(rows[1], action, c, a, fault)
                         EXCEPT !.raised = @ \/ raised]
                 ELSE [_publish_multiple_assignments(rows, action, c, a, fault)
                         EXCEPT !.raised = @ \/ raised]))))),
    "I encountered an error while updating the assignment status.")

\* ActionHandlers.create_course
create_course(params, user_id, c, a, now, fault) ==
    Catch(
        LET title == Or(Get(params, "title"), GetDefault(params, "course_code", StrV(Lit.NewCourse)))
            id == FreshId(CourseIdPool, c)
        IN IF Raises(fault, "courses.select.title") THEN Exc(c, a)
           ELSE IF RowsWhere(c, LAMBDA r : r.title = title.s) # <<>>
           THEN Ok(Res(FALSE, "Course already exists.",
                       DictV([existing_course_id |-> StrV(UuidText(
                                RowsWhere(c, LAMBDA r : r.title = title.s)[1].id))])),
                   c, a, FALSE)
           ELSE IF Raises(fault, "courses.insert") THEN Exc(c, a)
           ELSE Ok(Res(TRUE, "Created course.", DictV([course_id |-> StrV(UuidText(id))])),
                   Append(c, [id |-> id, title |-> title.s, teacher_id |-> user_id]), a, FALSE),
    "I encountered an error while creating the course.")

\* ActionHandlers.update_course
update_course(params, user_id, c, a, now, fault) ==
    Catch(
        LET identifier == Or(Get(params, "course_id"), Get(params, "course_name"))
            title == Get(params, "title")
            description == Get(params, "description")
        IN IF ~Truthy(identifier)
           THEN Ok(Res(FALSE, "I need a course name or ID to update it.", NoneV), c, a, FALSE)
           ELSE
           Bind(_find_course(identifier, user_id, c, fault), LAMBDA course :
             IF ~course.found
             THEN Ok(Res(FALSE, "I couldn't find course.", NoneV), c, a, course.raised)
             ELSE IF ~Truthy(title) /\ ~Truthy(description)
             THEN Ok(Res(FALSE, "I need to know what you want to update about the course.", NoneV),
                     c, a, FALSE)
             ELSE IF Raises(fault, "courses.update") THEN Exc(c, a)
             ELSE Ok(Res(TRUE, "Updated course.",
                         DictV([course_id |-> StrV(UuidText(course.row.id))])),
                     IF Truthy(title)
                     THEN UpdateRow(c, course.row.id, LAMBDA r : [r EXCEPT !.title = title.s])
                     ELSE c,
                     a, FALSE)),
    "I encountered an error while updating the course.")

\* the rows of table "submissions" of an assignment: no handler writes the
\* table, and the model keeps it empty
SubmissionsOf(assignment_id) == <<>>

\* ActionHandlers._get_single_assignment_submissions
_get_single_assignment_submissions(assignment, user_id, c, a, fault) ==
    Catch(
        LET check == OwnerCheck(assignment, user_id, c, fault)
        IN IF check.exc THEN Exc(c, a)
           ELSE IF ~check.owner
           THEN Ok(Res(FALSE, "You can only check submissions for assignments in your own courses.",
                       NoneV), c, a, FALSE)
           ELSE IF Raises(fault, "submissions.select") THEN Exc(c, a)
           ELSE Ok(Res(TRUE, "Assignment has submissions.",
                       DictV([assignment_id |-> StrV(UuidText(assignment.id)),
                              submission_count |-> IntV(Len(SubmissionsOf(assignment.id)))])),
                   c, a, FALSE),
    "I encountered an error while getting submission count.")

\* lines 835-850: the assignments whose count could be read
RECURSIVE CountEach(_, _, _, _, _, _, _)
CountEach(todo, user_id, c, a, fault, counted, raised) ==
    IF todo = <<>> THEN [counted |-> counted, raised |-> raised]
    ELSE Bind(_get_single_assignment_submissions(Head(todo), user_id, c, a, fault), LAMBDA o :
              CountEach(Tail(todo), user_id, c, a, fault,
                        IF o.res.success THEN Append(counted, Head(todo).title) ELSE counted,
                        raised \/ o.raised))

\* ActionHandlers._get_multiple_assignment_submissions
_get_multiple_assignment_submissions(rows, user_id, c, a, fault) ==
    Bind(CountEach(rows, user_id, c, a, fault, <<>>, FALSE), LAMBDA r :
      IF r.counted = <<>>
      THEN Ok(Res(FALSE, "Unable to access submission data for assignments in course.", NoneV),
              c, a, r.raised)
      ELSE Ok(Res(TRUE, "Submission counts for course.", DictV([assignments |-> r.counted])),
              c, a, r.raised))

\* line 721: the keywords, with "submissions" and "submission" removed too
SubmissionCourseKeywords(s) ==
    Strip(Remove(Remove(Remove(Remove(Remove(Remove(Lower(s), Lit.assignment), Lit.the), Lit.w_in),
                               Lit.course), Lit.submissions), Lit.submission))

\* ActionHandlers.get_submission_count
get_submission_count(params, user_id, c, a, now, fault) ==
    Catch(
        LET identifier == AssignmentIdentifier(params)
        IN IF ~Truthy(identifier)
           THEN Ok(Res(FALSE, "I need an assignment name or course name to check submission counts.",
                       NoneV), c, a, FALSE)
           ELSE
           Bind(_find_assignment(identifier, user_id, c, a, fault), LAMBDA found :
             IF found.found
             THEN _get_single_assignment_submissions(found.row, user_id, c, a, fault)
             ELSE IF identifier.t # "str" THEN Exc(c, a)
             ELSE
             Bind(SubmissionCourseKeywords(identifier.s), LAMBDA keywords :
             Bind(IF keywords # <<>> THEN _find_course(StrV(keywords), user_id, c, fault)
                  ELSE NotFound(FALSE), LAMBDA course :
             Bind(found.raised \/ course.raised, LAMBDA raised :
               IF ~course.found THEN NothingFound(c, a, raised)
               ELSE IF Raises(fault, "assignments.select.course_id") THEN Exc(c, a)
               ELSE
               Bind(AssignmentsOfCourse(a, course.row.id), LAMBDA rows :
                 IF rows = <<>>
                 THEN Ok(Res(FALSE, "No assignments found in course.", NoneV), c, a, raised)
                 ELSE IF Len(rows) = 1
                 THEN [_get_single_assignment_submissions(rows[1], user_id, c, a, fault)
                         EXCEPT !.raised = @ \/ raised]
                 ELSE [_get_multiple_assignment_submissions(rows, user_id, c, a, fault)
                         EXCEPT !.raised = @ \/ raised]))))),
    "I encountered an error while getting submission counts.")

\* a get_info that deletes the assignment it was asked about
get_info_Deleting(params, user_id, c, a, now, fault) ==
    delete_assignment([assignment_name |-> StrV(Txt.midterm)], user_id, c, a, now, fault)

\* ActionHandlers.get_info
get_info(params, user_id, c, a, now, fault) ==
    Catch(
        LET info_type == GetDefault(params, "type", StrV(Lit.general))
            identifier == Or(Get(params, "name"), Get(params, "id"))
        IN IF info_type = StrV(Lit.course) /\ Truthy(identifier)
           THEN Bind(_find_course(identifier, user_id, c, fault), LAMBDA course :
                  IF ~course.found
                  THEN Ok(Res(FALSE, "I couldn't find course.", NoneV), c, a, course.raised)
                  ELSE IF Raises(fault, "assignments.select.course_id") THEN Exc(c, a)
                  ELSE Ok(Res(TRUE, "Course has assignment(s).",
                              DictV([assignment_count |->
                                        IntV(Len(AssignmentsOfCourse(a, course.row.id)))])),
                          c, a, FALSE))
           ELSE IF info_type = StrV(Lit.assignment) /\ Truthy(identifier)
           THEN Bind(_find_assignment(identifier, user_id, c, a, fault), LAMBDA found :
                  IF ~found.found
                  THEN Ok(Res(FALSE, "I couldn't find assignment.", NoneV), c, a, found.raised)
                  ELSE IF Raises(fault, "submissions.select") THEN Exc(c, a)
                  ELSE Ok(Res(TRUE, "Assignment has submission(s).",
                              DictV([status |-> StrV(found.row.status),
                                     submission_count |-> IntV(Len(SubmissionsOf(found.row.id)))])),
                          c, a, FALSE))
           ELSE IF Raises(fault, "courses.select.teacher_id") THEN Exc(c, a)
           ELSE Ok(Res(TRUE, "You have course(s) and assignment(s) total.",
                       DictV([total_courses |-> IntV(Len(OwnedBy(c, user_id))),
                              total_assignments |-> IntV(Len(a))])),
                   c, a, FALSE),
    "I encountered an error while retrieving information.")

\* ActionHandlers.handle_conversation
handle_conversation(params, user_id, c, a, now, fault) ==
    Ok(Res(TRUE, "Conversation handled successfully",
           DictV([type |-> StrV(Lit.conversation)])),
       c, a, FALSE)

\* the keys of self.handlers
Handlers ==
    {"create_assignment", "update_assignment", "update_rubric", "delete_assignment",
     "publish_assignment", "create_course", "update_course", "get_submission_count",
     "get_info", "conversation"}

Dispatch(intent, params, user_id, c, a, now, fault) ==
    CASE intent = "create_assignment" -> create_assignment(params, user_id, c, a, now, fault)
      [] intent = "update_assignment" -> update_assignment(params, user_id, c, a, now, fault)
      [] intent = "update_rubric" -> update_rubric(params, user_id, c, a, now, fault)
      [] intent = "delete_assignment" -> delete_assignment(params, user_id, c, a, now, fault)
      [] intent = "publish_assignment" -> publish_assignment(params, user_id, c, a, now, fault)
      [] intent = "create_course" -> create_course(params, user_id, c, a, now, fault)
      [] intent = "update_course" -> update_course(params, user_id, c, a, now, fault)
      [] intent = "get_submission_count" ->
            get_submission_count(params, user_id, c, a, now, fault)
      [] intent = "get_info" -> get_info(params, user_id, c, a, now, fault)
      [] intent = "conversation" -> handle_conversation(params, user_id, c, a, now, fault)

\* ActionHandlers.execute(intent, parameters, user_id, user_token)
execute(intent, params, user_id, c, a, now, fault) ==
    IF intent \notin Handlers
    THEN Ok(Res(FALSE, "I don't know how to handle this yet.", NoneV), c, a, FALSE)
    ELSE Catch(Dispatch(intent, params, user_id, c, a, now, fault),
               "I encountered an error while trying to do this.")

-----------------------------------------------------------------------------
(* The requests                                                            *)

Users == {"t1", "t2"}

EmptyParams == EmptyDict

\* the parameters tried with each intent
Params ==
    [create_assignment |->
        {[title |-> StrV(Txt.MidtermExam), course |-> StrV(Txt.CS500)],
         [title |-> StrV(Txt.MidtermExam), course |-> StrV(Txt.CS500),
          due_date |-> StrV(Txt.in_3_days)],
         [course |-> StrV(Txt.CS500)],
         [title |-> StrV(Txt.MidtermExam)]},
     create_course |->
        {[title |-> StrV(Txt.CS500)],
         EmptyParams},
     update_assignment |->
        {[assignment_name |-> StrV(Txt.midterm), due_date |-> StrV(DateLit.tomorrow)],
         [assignment_name |-> StrV(Txt.cs500), due_date |-> StrV(DateLit.tomorrow)],
         [assignment_name |-> StrV(Txt.midterm), status |-> StrV(Txt.archived)],
         [due_date |-> StrV(DateLit.tomorrow)]},
     update_rubric |->
        {[assignment_name |-> StrV(Txt.midterm), rubric_text |-> StrV(Txt.Rubric)],
         [assignment_name |-> StrV(Txt.midterm)],
         [rubric_text |-> StrV(Txt.Rubric)]},
     delete_assignment |->
        {[assignment_name |-> StrV(Txt.midterm)],
         EmptyParams},
     publish_assignment |->
        {[assignment_name |-> StrV(Txt.midterm)],
         [assignment_name |-> StrV(Txt.cs500)],
         EmptyParams},
     update_course |->
        {[course_name |-> StrV(Txt.cs500), title |-> StrV(Txt.CS500)],
         [title |-> StrV(Txt.CS500)]},
     get_submission_count |->
        {[assignment_name |-> StrV(Txt.midterm)],
         EmptyParams},
     get_info |->
        {[type |-> StrV(Lit.course), name |-> StrV(Txt.cs500)],
         EmptyParams}]

\* the datastore fault of a request: none, or the calls of one shape raise,
\* or the updates and deletes of some assignments raise
Fault(shape) == [shape |-> shape, rows |-> {}]
WriteFaultOn(ids) == [shape |-> "assignments.write", rows |-> ids]
WriteFault == WriteFaultOn({AssignmentIdPool[1]})

\* the faults tried with each intent, among the datastore calls its handler makes
Faults ==
    [create_assignment |-> {NoFault, Fault("assignments.insert")},
     update_assignment |->
        {NoFault, Fault("assignments.select.title"), Fault("courses.select.id"), WriteFault},
     update_rubric |-> {NoFault, Fault("courses.select.id")},
     delete_assignment |-> {NoFault, WriteFault},
     publish_assignment |-> {NoFault, Fault("assignments.select.title"), WriteFault},
     create_course |-> {NoFault, Fault("courses.insert")},
     update_course |-> {NoFault, Fault("courses.insert")},
     get_submission_count |-> {NoFault, Fault("assignments.select.course_id")},
     get_info |-> {NoFault, Fault("assignments.select.course_id")}]

\* the time of the requests of a run: midnight, or an afternoon
HandlerClocks == {DT(2, 0, 0, 0, 0), DT(2, 14, 30, 25, 7)}

NoCall == [called |-> FALSE]

-----------------------------------------------------------------------------
(* Specification of the handlers: requests are served one at a time        *)

Init ==
    /\ requests = <<>>
    /\ dateCall = NoCall
    /\ gradeCall = NoCall
    /\ kbDocs = {}
    /\ kbRag = {}
    /\ agentKB = 0
    /\ push = PushIdle
    /\ courses = <<>>
    /\ assignments = <<>>
    /\ clock \in HandlerClocks
    /\ last = NoCall

\* one call of ActionHandlers.execute, from the request to the result; the
\* previous response has been delivered.  `last` records the call: the
\* request, the result or the exception, whether a datastore call raised,
\* whether an outermost except clause built the result, and by how many rows
\* each table grew.
Execute(intent, params, user_id, fault) ==
    /\ ~last.called
    /\ Bind(execute(intent, params, user_id, courses, assignments, clock, fault), LAMBDA o :
         /\ Len(o.c) <= MaxCourses
         /\ Len(o.a) <= MaxAssignments
         /\ courses' = o.c
         /\ assignments' = o.a
         /\ last' = [called |-> TRUE, intent |-> intent, params |-> params, user |-> user_id,
                     exc |-> o.exc, res |-> o.res, raised |-> o.raised, outer |-> o.outer,
                     inserted |-> [courses |-> Len(o.c) - Len(courses),
                                   assignments |-> Len(o.a) - Len(assignments)]])
    /\ UNCHANGED <<requests, dateCall, gradeCall, kbDocs, kbRag, agentKB, push, clock>>

CreateAssignment ==
    \E params \in Params.create_assignment, u \in Users, f \in Faults.create_assignment :
        Execute("create_assignment", params, u, f)
UpdateAssignment ==
    \E params \in Params.update_assignment, u \in Users, f \in Faults.update_assignment :
        Execute("update_assignment", params, u, f)
UpdateRubric ==
    \E params \in Params.update_rubric, u \in Users, f \in Faults.update_rubric :
        Execute("update_rubric", params, u, f)
DeleteAssignment ==
    \E params \in Params.delete_assignment, u \in Users, f \in Faults.delete_assignment :
        Execute("delete_assignment", params, u, f)
PublishAssignment ==
    \E params \in Params.publish_assignment, u \in Users, f \in Faults.publish_assignment :
        Execute("publish_assignment", params, u, f)
CreateCourse ==
    \E params \in Params.create_course, u \in Users, f \in Faults.create_course :
        Execute("create_course", params, u, f)
UpdateCourse ==
    \E params \in Params.update_course, u \in Users, f \in Faults.update_course :
        Execute("update_course", params, u, f)
GetSubmissionCount ==
    \E params \in Params.get_submission_count, u \in Users, f \in Faults.get_submission_count :
        Execute("get_submission_count", params, u, f)
GetInfo ==
    \E params \in Params.get_info, u \in Users, f \in Faults.get_info :
        Execute("get_info", params, u, f)
Conversation ==
    \E u \in Users : Execute("conversation", EmptyParams, u, NoFault)
UnknownIntent ==
    \E u \in Users : Execute("grade_all", EmptyParams, u, NoFault)

\* the response is delivered to the caller: the record of the call is dropped
Respond ==
    /\ last.called
    /\ last' = NoCall
    /\ UNCHANGED <<requests, dateCall, gradeCall, kbDocs, kbRag, agentKB, push, courses, assignments,
                   clock>>

Next ==
    \/ CreateAssignment
    \/ UpdateAssignment
    \/ UpdateRubric
    \/ DeleteAssignment
    \/ PublishAssignment
    \/ CreateCourse
    \/ UpdateCourse
    \/ GetSubmissionCount
    \/ GetInfo
    \/ Conversation
    \/ UnknownIntent
    \/ Respond

Spec == Init /\ [][Next]_vars

-----------------------------------------------------------------------------
(* Specification of the date normalizer: calls of process_date_expression  *)
(* at every weekday and at several times of day                            *)

\* datetime.now() of a call: each weekday; midnight, an afternoon and the
\* last second of the day; with and without a microsecond part
DateClocks ==
    {DT(d, t[1], t[2], t[3], u) :
        d \in 0..6, t \in {<<0, 0, 0>>, <<14, 30, 25>>, <<23, 59, 59>>}, u \in {0, 7}}

\* "tomorrow", "next <weekday>" and "in N days" in digits
RelativeExprs ==
    {DateLit.tomorrow, Txt.in_0_days, Txt.in_1_day, Txt.in_3_days, Txt.in_12_days}
      \cup {WeekdayNames[w] : w \in 1..7}

\* the other texts: today, next week, a padded capitalised word, a relative
\* day with a time, absolute dates, a number in words, arbitrary text, ""
OtherExprs ==
    {DateLit.today, DateLit.next_week, Txt.Tomorrow_sp, Txt.tomorrow_5pm, Txt.abs_date, Txt.abs_datetime,
     Txt.in_two_days, Txt.garbage, <<>>}

\* values that are not a str
NonStrValues == {NoneV, IntV(5)}

InitDate ==
    /\ requests = <<>>
    /\ dateCall = NoCall
    /\ gradeCall = NoCall
    /\ kbDocs = {}
    /\ kbRag = {}
    /\ agentKB = 0
    /\ push = PushIdle
    /\ courses = <<>>
    /\ assignments = <<>>
    /\ clock \in DateClocks
    /\ last = NoCall

\* one call process_date_expression(v) at the time of the clock
ProcessDate(v) ==
    /\ dateCall' = [called |-> TRUE, expr |-> v, now |-> clock,
                    iso |-> process_date_expression(clock, v)]
    /\ UNCHANGED <<requests, gradeCall, kbDocs, kbRag, agentKB, push, courses, assignments, clock,
                   last>>

ProcessRelative == \E e \in RelativeExprs : ProcessDate(StrV(e))
ProcessOther == \E e \in OtherExprs : ProcessDate(StrV(e))
ProcessNonStr == \E v \in NonStrValues : ProcessDate(v)

NextDate ==
    \/ ProcessRelative
    \/ ProcessOther
    \/ ProcessNonStr

SpecDate == InitDate /\ [][NextDate]_vars

-----------------------------------------------------------------------------
(* Specification of the knowledge-base push: calls of                      *)
(* update_knowledge_base_all_students one after the other, on a knowledge   *)
(* base that starts empty                                                   *)

InitKB ==
    /\ requests = <<>>
    /\ dateCall = NoCall
    /\ gradeCall = NoCall
    /\ kbDocs = {}
    /\ kbRag = {}
    /\ agentKB = 0
    /\ push = PushIdle
    /\ courses = <<>>
    /\ assignments = <<>>
    /\ clock = DT(0, 0, 0, 0, 0)
    /\ last = NoCall

NextKB ==
    \/ KBStart
    \/ KBDeleteRagIndices
    \/ KBBuildContext
    \/ KBUpload
    \/ KBCreateRagIndex
    \/ KBCleanup
    \/ KBAttachOk
    \/ KBAttachFail
    \/ KBReturn

SpecKB == InitKB /\ [][NextKB]_vars

\* a call of the agent-update API returns or raises: a pass of the retry
\* loop, once started, ends
SpecKBLive == SpecKB /\ WF_vars(KBAttachOk \/ KBAttachFail)

-----------------------------------------------------------------------------
(* Specification of the grading agent: calls of _validate_grading_result   *)
(* and of grade_submission on the replies an LLM can give                   *)

\* the largest max_points of a call; 16 has grades whose percentage is a tie
MaxPoints == 16

\* the grades an LLM reports: below 0, in range, above max_points
ReportedGrades == (0 - 2)..(MaxPoints + 2)

\* parsed JSON replies: an object with a grade; with no grade; with feedback
\* and an out-of-range confidence; with a rubric breakdown; with feedback
\* that is no object; with a grade that is no number; and no object at all
JsonValues ==
    {DictV([grade |-> IntV(g)]) : g \in ReportedGrades}
      \cup {DictV(EmptyDict),
            DictV([grade |-> IntV(3),
                   feedback |-> DictV([overall |-> StrV("Good")]),
                   confidence_level |-> IntV(150)]),
            DictV([grade |-> IntV(2),
                   rubric_breakdown |-> ListV(<<[criterion |-> StrV("Clarity")]>>),
                   confidence_level |-> IntV(90),
                   recommendations |-> ListV(<<StrV("Revise")>>)]),
            DictV([grade |-> IntV(3), feedback |-> ListV(<<>>)]),
            DictV([grade |-> StrV("A")]),
            ListV(<<>>),
            IntV(7),
            NoneV}

\* replies json.loads rejects, as the lines of the text
TextReplies ==
    {<<>>,
     <<[kw |-> TRUE, nums |-> <<5>>]>>,
     <<[kw |-> FALSE, nums |-> <<3>>], [kw |-> TRUE, nums |-> <<>>],
       [kw |-> TRUE, nums |-> <<20, 4>>], [kw |-> TRUE, nums |-> <<1>>]>>}

\* the outcomes of the LLM call
Replies ==
    {[kind |-> "api_error"], [kind |-> "none"]}
      \cup {[kind |-> "json", value |-> v] : v \in JsonValues}
      \cup {[kind |-> "text", lines |-> l] : l \in TextReplies}

InitGrade ==
    /\ requests = <<>>
    /\ dateCall = NoCall
    /\ gradeCall = NoCall
    /\ kbDocs = {}
    /\ kbRag = {}
    /\ agentKB = 0
    /\ push = PushIdle
    /\ courses = <<>>
    /\ assignments = <<>>
    /\ clock = DT(0, 0, 0, 0, 0)
    /\ last = NoCall

\* one call _validate_grading_result(result, max_points)
ValidateResult ==
    /\ \E result \in JsonValues, m \in 0..MaxPoints :
          gradeCall' = [called |-> TRUE, fn |-> "validate", arg |-> result, max_points |-> m,
                        out |-> _validate_grading_result(result, m)]
    /\ UNCHANGED <<requests, dateCall, kbDocs, kbRag, agentKB, push, courses, assignments, clock, last>>

\* one call grade_submission(..., max_points)
GradeSubmission ==
    /\ \E reply \in Replies, m \in 0..MaxPoints :
          gradeCall' = [called |-> TRUE, fn |-> "grade", arg |-> reply, max_points |-> m,
                        out |-> grade_submission(reply, m)]
    /\ UNCHANGED <<requests, dateCall, kbDocs, kbRag, agentKB, push, courses, assignments, clock, last>>

NextGrade ==
    \/ ValidateResult
    \/ GradeSubmission

SpecGrade == InitGrade /\ [][NextGrade]_vars

-----------------------------------------------------------------------------
(* Properties of the knowledge-base push (under SpecKB)                    *)

\* a push has returned after its attachment step failed MaxRetries times
\* with a 502 error
AttachFailedThreeTimes == push.pc = "done" /\ push.n502 = MaxRetries

\* C3, as the claim states it: when the attachment step of a push fails on all
\* 3 attempts with 502 errors, the push returns False and the document it
\* uploaded is still in the knowledge base.
C3_PushReturnsFalse ==
    AttachFailedThreeTimes => (push.ret = "False" /\ push.newDoc \in kbDocs)

\* C3, amended: when the attachment step of a push fails on all 3 attempts
\* with 502 errors, the attachment step returns False, the push itself returns
\* True, and the document it uploaded is still in the knowledge base.
C3_AttachFalsePushTrue ==
    AttachFailedThreeTimes =>
        (push.attach = "False" /\ push.ret = "True" /\ push.newDoc \in kbDocs)

\* C3: a push whose three attachment attempts failed with 502 has returned,
\* and an older document sits beside the one it uploaded
C3_Witness ==
    AttachFailedThreeTimes /\ push.newDoc \in kbDocs /\ Cardinality(kbDocs) >= 2

-----------------------------------------------------------------------------
(* Properties of the grading agent (under SpecGrade)                       *)

\* the call validated an object whose grade is a number and whose feedback,
\* if any, is an object, with max_points > 0
ValidatedGrade ==
    /\ gradeCall.called
    /\ gradeCall.fn = "validate"
    /\ gradeCall.max_points > 0
    /\ gradeCall.arg.t = "dict"
    /\ "grade" \in DOMAIN gradeCall.arg.d
    /\ gradeCall.arg.d["grade"].t = "int"
    /\ ("feedback" \in DOMAIN gradeCall.arg.d => gradeCall.arg.d["feedback"].t = "dict")

\* p tenths of a percent is round(grade / max_points * 100, 1): the nearest
\* tenth, the even one of two equally near
IsRoundedPercentage(p, grade, max_points) ==
    LET twice == 2 * (p * max_points - 1000 * grade)
    IN /\ twice <= max_points
       /\ 0 - twice <= max_points
       /\ (twice = max_points \/ 0 - twice = max_points) => p % 2 = 0

\* C4: for every reported grade g and every max_points > 0, validation returns
\* grade 0 if g < 0, max_points if g > max_points and g otherwise, and the
\* percentage is round(grade / max_points * 100, 1) of the returned grade.
C4_ClampAndPercentage ==
    ValidatedGrade =>
        LET g == gradeCall.arg.d["grade"].n
            m == gradeCall.max_points
        IN /\ ~gradeCall.out.exc
           /\ gradeCall.out.val.d["grade"] =
                 IntV(IF g < 0 THEN 0 ELSE IF g > m THEN m ELSE g)
           /\ gradeCall.out.val.d["percentage"].t = "int"
           /\ IsRoundedPercentage(gradeCall.out.val.d["percentage"].n,
                                  gradeCall.out.val.d["grade"].n, m)

\* C4: a negative grade was validated: the grade returned is 0 and the
\* percentage 0.0
C4_Witness ==
    /\ ValidatedGrade
    /\ gradeCall.arg.d["grade"].n < 0
    /\ gradeCall.out.val.d["grade"] = IntV(0)
    /\ gradeCall.out.val.d["percentage"] = IntV(0)

\* C5, as the claim states it: grade_submission never raises, a reply that is
\* no JSON goes through the regex fallback, and the result of every path has
\* the keys grade, feedback and detailed_result.
C5_AlwaysThreeKeys ==
    (gradeCall.called /\ gradeCall.fn = "grade") =>
        /\ ~gradeCall.out.exc
        /\ {"grade", "feedback", "detailed_result"} \subseteq DOMAIN gradeCall.out.val
        /\ gradeCall.arg.kind = "text" =>
              gradeCall.out.val.detailed_result.d["confidence_level"] = IntV(FallbackConfidence)

-----------------------------------------------------------------------------
(* Properties of the date normalizer (under SpecDate)                      *)

\* the call was given one of the texts "tomorrow", "next <weekday>", "in N days"
RelativeCall(texts) ==
    dateCall.called /\ dateCall.expr.t = "str" /\ dateCall.expr.s \in texts

\* C6, as the claim states it: for "tomorrow", "next <weekday>" and "in N days"
\* with N a non-negative integer, the timestamp returned is strictly later
\* than the call time.
C6_NonNegativeStrictlyLater ==
    RelativeCall(RelativeExprs) => IsoAfter(dateCall.iso, dateCall.now)

\* C6, amended: for "tomorrow", "next <weekday>" and "in N days" with N a
\* positive integer, the timestamp returned is strictly later than the call
\* time.
C6_PositiveStrictlyLater ==
    RelativeCall(RelativeExprs \ {Txt.in_0_days}) => IsoAfter(dateCall.iso, dateCall.now)

\* C6: "next monday" was asked on a Monday, and the answer is the Monday a
\* week later
C6_Witness ==
    /\ RelativeCall({DateLit.next_monday})
    /\ Weekday(dateCall.now) = 0
    /\ IsoDate(dateCall.iso) = dateCall.now.day + 7
    /\ IsoAfter(dateCall.iso, dateCall.now)

\* C7, as the claim states it: for "tomorrow", "next <weekday>" and "in N days"
\* the seconds component of the timestamp returned is 59.
C7_SecondsAre59 ==
    RelativeCall(RelativeExprs) => IsoSecond(dateCall.iso) = 59

-----------------------------------------------------------------------------
(* Properties of the action handlers (under Spec)                          *)

\* the step is a call of execute
IsCall == ~last.called /\ last'.called

\* the teacher of the course of an assignment row, "" when the course is gone
TeacherOf(row) ==
    IF \E i \in 1..Len(courses) : courses[i].id = row.course_id
    THEN courses[CHOOSE i \in 1..Len(courses) : courses[i].id = row.course_id].teacher_id
    ELSE ""

\* the call changed or removed this assignment row
Touched(row) == \A j \in 1..Len(assignments') : assignments'[j] # row

\* C1, as the claim states it: a call changes or removes an assignment row
\* only when the caller is the teacher of the row's course; a call by anyone
\* else leaves the row as it was.
C1_OnlyOwnerMutates ==
    [][IsCall =>
         \A i \in 1..Len(assignments) :
            Touched(assignments[i]) => TeacherOf(assignments[i]) = last'.user]_vars

\* no course title matches "CS500" (neither equal to it nor containing it,
\* whatever the case)
NoCourseMatchesCS500 ==
    \A i \in 1..Len(courses) : ~Contains(Lower(courses[i].title), Txt.cs500)

\* C2: create_assignment with course="CS500", when no course matches that
\* name and no datastore call fails, appends exactly one course row, whose
\* teacher is the caller, and exactly one assignment row, whose course_id is
\* the id of that new course.
C2_CreatesCourseAndAssignment ==
    [][(/\ IsCall
        /\ last'.intent = "create_assignment"
        /\ Get(last'.params, "course") = StrV(Txt.CS500)
        /\ ~last'.raised
        /\ NoCourseMatchesCS500)
       => /\ Len(courses') = Len(courses) + 1
          /\ SubSeq(courses', 1, Len(courses)) = courses
          /\ courses'[Len(courses')].teacher_id = last'.user
          /\ \A i \in 1..Len(courses) : courses[i].id # courses'[Len(courses')].id
          /\ Len(assignments') = Len(assignments) + 1
          /\ SubSeq(assignments', 1, Len(assignments)) = assignments
          /\ assignments'[Len(assignments')].course_id = courses'[Len(courses')].id]_vars

\* C2: a second teacher's create_assignment for "CS500" has just added a course
\* and an assignment in it, beside an unrelated course
C2_Witness ==
    /\ last.called
    /\ last.intent = "create_assignment"
    /\ Get(last.params, "course") = StrV(Txt.CS500)
    /\ last.res.success
    /\ last.inserted = [courses |-> 1, assignments |-> 1]
    /\ Len(courses) = 2
    /\ courses[2].title = Txt.CS500
    /\ courses[2].teacher_id = last.user
    /\ courses[1].teacher_id # last.user
    /\ assignments[Len(assignments)].course_id = courses[2].id

\* the caller's update_assignment for "midterm" with due_date "tomorrow" has
\* updated an assignment titled "Midterm Exam" of a course of the caller
MidtermDueTomorrow(i) ==
    /\ last.called
    /\ last.intent = "update_assignment"
    /\ last.params = [assignment_name |-> StrV(Txt.midterm), due_date |-> StrV(DateLit.tomorrow)]
    /\ last.res.success
    /\ assignments[i].title = Txt.MidtermExam
    /\ TeacherOf(assignments[i]) = last.user

\* C8, as the claim states it: update_assignment with assignment_name="midterm"
\* and due_date="tomorrow", run by the owner at any time of day, stores a
\* due_date on the day after the call at 23:59:59.
C8_DueTomorrowEndOfDay ==
    \A i \in 1..Len(assignments) :
        MidtermDueTomorrow(i) =>
            /\ IsoDate(assignments[i].due_date) = clock.day + 1
            /\ SubSeq(assignments[i].due_date, 2, 4) = <<23, 59, 59>>

\* C9, as the claim states it: execute never raises and returns exactly the
\* fields success, message and data, with success=false for an unknown intent
\* and whenever an exception was caught.
C9_FalseOnAnyCaughtException ==
    last.called =>
        /\ ~last.exc
        /\ DOMAIN last.res = {"success", "message", "data"}
        /\ last.res.success \in BOOLEAN
        /\ last.intent \notin Handlers => ~last.res.success
        /\ last.raised => ~last.res.success

\* C9, amended: execute never raises and returns exactly the fields success,
\* message and data, with success=false for an unknown intent and whenever
\* the result is built by the outermost except clause of a handler or of
\* execute.  (An exception caught while an assignment or course is looked up,
\* or for one item of a bulk operation, can end in success=true.)
C9_FalseOnOutermostCatch ==
    last.called =>
        /\ ~last.exc
        /\ DOMAIN last.res = {"success", "message", "data"}
        /\ last.res.success \in BOOLEAN
        /\ last.intent \notin Handlers => ~last.res.success
        /\ last.outer => ~last.res.success

\* C9: a datastore call raised in a known handler and its outermost except
\* clause answered
C9_Witness ==
    /\ last.called
    /\ last.intent \in Handlers
    /\ last.raised
    /\ last.outer
    /\ ~last.exc
    /\ ~last.res.success

\* the parameters the claim calls required are not all there
Absent(params, keys) == \A k \in keys : ~Truthy(Get(params, k))
NoAssignmentIdentifier(params) ==
    Absent(params, {"assignment_id", "assignment_name", "title", "course_name"})
MissingRequired(intent, params) ==
    CASE intent = "create_course" -> Absent(params, {"title"})
      [] intent = "create_assignment" -> Absent(params, {"title"}) \/ Absent(params, {"course"})
      [] intent \in {"update_assignment", "delete_assignment", "get_submission_count",
                     "publish_assignment"} -> NoAssignmentIdentifier(params)
      [] intent = "update_rubric" ->
            NoAssignmentIdentifier(params) \/ Absent(params, {"rubric_text", "rubric"})
      [] intent = "update_course" -> Absent(params, {"course_id", "course_name"})
      [] OTHER -> FALSE

\* the messages that name a missing parameter
MissingParameterMessages ==
    {"I need an assignment name or course name to update assignments.",
     "I need both an assignment name and the new rubric content.",
     "I need an assignment name or course name to delete assignments.",
     "I need an assignment name or course name to publish/unpublish assignments.",
     "I need an assignment name or course name to check submission counts.",
     "I need a course name or ID to update it."}

\* C10, as the claim states it: a call that lacks a parameter its intent
\* requires returns success=false with a missing-parameter message and
\* inserts, updates and deletes nothing.
C10_MissingParameterRejected ==
    [][(IsCall /\ MissingRequired(last'.intent, last'.params))
       => /\ ~last'.res.success
          /\ last'.res.message \in MissingParameterMessages
          /\ courses' = courses
          /\ assignments' = assignments]_vars

-----------------------------------------------------------------------------
(* Specification of the bulk operations: a teacher's course holds several  *)
(* assignments, and requests that name the course update or publish them   *)
(* all, while the datastore rejects the writes of some of them             *)

\* the most assignments of the course
MaxBulk == 3
BulkTitles == <<Txt.MidtermExam, Txt.MachineLearning, Txt.Rubric, Lit.NewAssignment>>

\* the course, as _find_or_create_course inserted it for teacher t1
BulkCourse == [id |-> CourseIdPool[1], title |-> Txt.CS500, teacher_id |-> "t1"]

\* the i-th assignment of the course, as create_assignment inserted it at `now`
BulkAssignment(i, now) ==
    [id |-> AssignmentIdPool[i],
     course_id |-> BulkCourse.id,
     title |-> BulkTitles[i],
     status |-> Lit.draft,
     due_date |-> IsoFormat(AddDays(now, DefaultDueDays)),
     total_points |-> DefaultPoints,
     rubric |-> NoneV]

BulkPoints == 50

\* requests that name the course, not an assignment
BulkUpdateParams ==
    {[assignment_name |-> StrV(Txt.cs500), points |-> IntV(BulkPoints)],
     [assignment_name |-> StrV(Txt.cs500), due_date |-> StrV(DateLit.tomorrow)]}
BulkPublishParams ==
    {[assignment_name |-> StrV(Txt.cs500), action |-> StrV(Lit.publish)],
     [assignment_name |-> StrV(Txt.cs500), action |-> StrV(Txt.unpublish)]}

InitBulk ==
    /\ requests = <<>>
    /\ dateCall = NoCall
    /\ gradeCall = NoCall
    /\ kbDocs = {}
    /\ kbRag = {}
    /\ agentKB = 0
    /\ push = PushIdle
    /\ clock = DT(2, 14, 30, 25, 7)
    /\ courses = <<BulkCourse>>
    /\ \E n \in 2..MaxBulk : assignments = [i \in 1..n |-> BulkAssignment(i, clock)]
    /\ last = NoCall

\* one call of ActionHandlers.execute while the datastore rejects the writes
\* of the assignments `ids`; `last` also records these and the table before
BulkExecute(intent, params, user_id, ids) ==
    /\ ~last.called
    /\ Bind(execute(intent, params, user_id, courses, assignments, clock, WriteFaultOn(ids)),
            LAMBDA o :
         /\ courses' = o.c
         /\ assignments' = o.a
         /\ last' = [called |-> TRUE, intent |-> intent, params |-> params, user |-> user_id,
                     exc |-> o.exc, res |-> o.res, raised |-> o.raised, outer |-> o.outer,
                     inserted |-> [courses |-> Len(o.c) - Len(courses),
                                   assignments |-> Len(o.a) - Len(assignments)],
                     failing |-> ids, before |-> assignments])
    /\ UNCHANGED <<requests, dateCall, gradeCall, kbDocs, kbRag, agentKB, push, clock>>

AssignmentIds == {assignments[i].id : i \in 1..Len(assignments)}

BulkUpdate ==
    \E params \in BulkUpdateParams, u \in Users, ids \in SUBSET AssignmentIds :
        BulkExecute("update_assignment", params, u, ids)
BulkPublish ==
    \E params \in BulkPublishParams, u \in Users, ids \in SUBSET AssignmentIds :
        BulkExecute("publish_assignment", params, u, ids)

NextBulk ==
    \/ BulkUpdate
    \/ BulkPublish
    \/ Respond

SpecBulk == InitBulk /\ [][NextBulk]_vars

-----------------------------------------------------------------------------
(* Bulk operations                                                         *)

\* a bulk request of the owner of the course has been served
BulkCall == last.called /\ last.user = BulkCourse.teacher_id

\* a list of titles in the data of the result; an absent key is an empty list
TitleList(key) ==
    IF last.res.data.t = "dict" /\ key \in DOMAIN last.res.data.d
    THEN last.res.data.d[key] ELSE <<>>

TitlesOf(rows) == [i \in 1..Len(rows) |-> rows[i].title]
Accepted(row) == row.id \notin last.failing

\* the row carries the change the request asked for, and nothing else changed
Changed(old, new) ==
    IF last.intent = "publish_assignment"
    THEN new = [old EXCEPT !.status = IF last.params.action = StrV(Lit.publish)
                                      THEN Lit.published ELSE Lit.draft]
    ELSE IF "points" \in DOMAIN last.params
    THEN new = [old EXCEPT !.total_points = BulkPoints]
    ELSE /\ [new EXCEPT !.due_date = old.due_date] = old
         /\ IsoDate(new.due_date) = clock.day + 1

\* C11: in a bulk update or bulk publish every assignment of the course is
\* attempted once whatever happened to the earlier ones: the titles of the
\* assignments whose write the datastore accepted make up the successful
\* list and those it rejected the failed list, in the order of the table;
\* an accepted write stays applied and a rejected one leaves its row as it
\* was; and the result is success=false exactly when no write was accepted.
C11_BulkPerItem ==
    BulkCall =>
        /\ TitleList("successful_assignments")
             = TitlesOf(SelectSeq(last.before, Accepted))
        /\ TitleList("failed_assignments")
             = TitlesOf(SelectSeq(last.before, LAMBDA r : ~Accepted(r)))
        /\ Len(assignments) = Len(last.before)
        /\ \A i \in 1..Len(last.before) :
              IF Accepted(last.before[i])
              THEN Changed(last.before[i], assignments[i])
              ELSE assignments[i] = last.before[i]
        /\ last.res.success = (\E i \in 1..Len(last.before) : Accepted(last.before[i]))

\* a bulk request in which the first write was rejected and a later one
\* accepted: a partial success
C11_Witness ==
    /\ BulkCall
    /\ Len(last.before) = MaxBulk
    /\ ~Accepted(last.before[1])
    /\ Accepted(last.before[2])
    /\ ~Accepted(last.before[3])
    /\ last.res.success
    /\ assignments[2] # last.before[2]

-----------------------------------------------------------------------------
(* The status of an assignment                                             *)

\* C12, as the claim states it: after any sequence of handler operations
\* every stored assignment has status "draft" or "published".
C12_StatusDraftOrPublished ==
    \A i \in 1..Len(assignments) : assignments[i].status \in {Lit.draft, Lit.published}

-----------------------------------------------------------------------------
(* api/agent.py: the endpoints POST /api/agent/process and                 *)
(* POST /api/agent/grade-submission                                        *)

\* lines 387-394 of agent/mylo.py: the result of the classifier when anything raised
ClassifierError ==
    DictV([intent |-> StrV("error"),
           parameters |-> DictV(EmptyDict),
           response |-> StrV("I encountered an error processing your request. Please try again.")])

\* MyloAgent.process_message for one outcome of the LLM call: the call
\* raises, or it returns a reply whose content is None, a JSON text (given
\* parsed) or a text json.loads rejects, with `ml` when the message names
\* machine learning and a course or the thread has a history (line 368).
process_message(reply) ==
    IF reply.kind = "api_error" THEN ClassifierError
    ELSE IF reply.kind = "none" THEN ClassifierError       \* None.strip(): AttributeError
    ELSE IF reply.kind = "json"
    THEN IF reply.value.t = "dict" /\ "intent" \in DOMAIN reply.value.d
         THEN reply.value
         ELSE ClassifierError                              \* result['intent']: KeyError, TypeError
    ELSE IF reply.ml
    THEN DictV([intent |-> StrV("create_assignment"),
                parameters |-> DictV([title |-> StrV(Lit.NewAssignment),
                                      course |-> StrV(Txt.MachineLearning)]),
                response |-> StrV("Perfect! I've created a new assignment.")])
    ELSE DictV([intent |-> StrV("conversation"),
                parameters |-> DictV(EmptyDict),
                response |-> StrV("I understand you're looking for help.")])

\* AgentResponse(response=..., action_taken=..., success=...): the model
\* class requires response to be a str and action_taken a str or None
AgentResponse(response, action_taken, success) ==
    IF response.t = "str" /\ action_taken.t \in {"str", "none"}
    THEN [exc |-> FALSE, status |-> 200, response |-> response,
          action_taken |-> action_taken, success |-> success]
    ELSE [exc |-> TRUE]

\* lines 125-133: except Exception
GenericFailure ==
    [exc |-> FALSE, status |-> 200, response |-> StrV("I encountered an error. Please try again."),
     action_taken |-> StrV("error"), success |-> FALSE]

\* the endpoint without its except clause: the exception leaves it
Unhandled(response) == response

\* the response of the endpoint, or the generic failure when building it raised
OrGenericFailure(response) == IF response.exc THEN GenericFailure ELSE response

\* str(intent) for a str or None
IntentName(intent) == IF intent.t = "str" THEN intent.s ELSE "None"

\* process_agent_request for one request: [resp, ran (a handler was run),
\* handler (its result), c, a, reads (the tables the endpoint itself read)]
process_agent_request(thread, reply, user_id, c, a, now, fault) ==
    LET reads == IF thread = "none" THEN <<>> ELSE <<"chat_messages">>
        ir == process_message(reply).d
        intent == Get(ir, "intent")
        parameters == GetDefault(ir, "parameters", DictV(EmptyDict))
    IN IF intent = StrV("error")
       THEN [resp |-> OrGenericFailure(
                        AgentResponse(GetDefault(ir, "response", StrV("I encountered an error.")),
                                      StrV("error"), FALSE)),
             ran |-> FALSE, handler |-> NoRes, c |-> c, a |-> a, reads |-> reads]
       ELSE IF intent = StrV("conversation")
       THEN [resp |-> OrGenericFailure(
                        AgentResponse(GetDefault(ir, "response", StrV("Hello!")),
                                      StrV("conversation"), TRUE)),
             ran |-> FALSE, handler |-> NoRes, c |-> c, a |-> a, reads |-> reads]
       ELSE
       Bind(execute(IntentName(intent), parameters.d, user_id, c, a, now, fault), LAMBDA o :
         [resp |-> OrGenericFailure(
                     AgentResponse(StrV(IF o.res.success THEN o.res.message
                                        ELSE "I understood your request but " \o o.res.message),
                                   intent, o.res.success)),
          ran |-> TRUE, handler |-> o.res, c |-> o.c, a |-> o.a, reads |-> reads])

\* raise HTTPException(status_code=...)
HTTPException(status) == [status |-> status, success |-> FALSE, graded |-> FALSE]
\* GradingResponse(success=...) with status 200
GradingResponse(success, graded) == [status |-> 200, success |-> success, graded |-> graded]

\* the test of line 296 without the comparison of teacher_id
IsTeacherOf_AnyCourse(c, course_id, user_id) == CourseById(c, course_id) # <<>>

\* line 296: course_result.data and course_result.data[0]["teacher_id"] == user.id
IsTeacherOf(c, course_id, user_id) ==
    CourseById(c, course_id) # <<>> /\ CourseById(c, course_id)[1].teacher_id = user_id

\* grade_submission of api/agent.py for one request: `found` is the result
\* of the select on submissions (each row with its assignment joined),
\* `text` the outcome of reading the submission's text, `reply` the outcome
\* of the grading agent's LLM call
api_grade_submission(user_id, course_id, found, text, reply, c, fault) ==
    IF Raises(fault, "courses.select.id") THEN GradingResponse(FALSE, FALSE)
    ELSE IF ~IsTeacherOf(c, course_id, user_id) THEN HTTPException(403)
    ELSE IF Raises(fault, "submissions.select.id") THEN GradingResponse(FALSE, FALSE)
    ELSE IF found = <<>> THEN HTTPException(404)
    ELSE IF found[1].assignment.course_id # course_id THEN HTTPException(400)
    ELSE IF text = "raises" THEN GradingResponse(FALSE, FALSE)
    ELSE IF text = "none" THEN GradingResponse(FALSE, FALSE)
    ELSE GradingResponse(grade_submission(reply, found[1].assignment.total_points).val.success,
                         TRUE)

-----------------------------------------------------------------------------
(* Specification of the endpoints                                          *)

\* the outcomes of the classifier's LLM call
ClassifierReplies ==
    {[kind |-> "api_error"], [kind |-> "none"],
     [kind |-> "text", ml |-> FALSE], [kind |-> "text", ml |-> TRUE],
     [kind |-> "json", value |-> ListV(<<>>)],
     [kind |-> "json", value |-> DictV(EmptyDict)],
     [kind |-> "json", value |-> DictV([intent |-> NoneV])],
     [kind |-> "json", value |-> DictV([intent |-> StrV("grade_all")])],
     [kind |-> "json", value |-> DictV([intent |-> StrV("error")])],
     [kind |-> "json", value |-> DictV([intent |-> StrV("conversation")])],
     [kind |-> "json", value |-> DictV([intent |-> StrV("conversation"), response |-> NoneV])],
     [kind |-> "json", value |-> DictV([intent |-> StrV("conversation"),
                                        response |-> StrV("Hello, teacher!")])]}

\* the reply that names a task and its parameters
TaskReply(intent, params) ==
    [kind |-> "json", value |-> DictV([intent |-> StrV(intent), parameters |-> DictV(params)])]

\* the grading agent's LLM call, as far as the endpoint tells the outcomes apart
GraderReplies ==
    {[kind |-> "api_error"],
     [kind |-> "json", value |-> DictV([grade |-> IntV(3)])],
     [kind |-> "text", lines |-> <<[kw |-> TRUE, nums |-> <<5>>]>>]}

Threads == {"none", "th1"}

InitApi ==
    /\ requests = <<>>
    /\ dateCall = NoCall
    /\ gradeCall = NoCall
    /\ kbDocs = {}
    /\ kbRag = {}
    /\ agentKB = 0
    /\ push = PushIdle
    /\ courses = <<>>
    /\ assignments = <<>>
    /\ clock = DT(2, 14, 30, 25, 7)
    /\ last = NoCall

\* one request POST /api/agent/process, from the request to the response
Process(thread, reply, user_id, fault) ==
    /\ ~last.called
    /\ Bind(process_agent_request(thread, reply, user_id, courses, assignments, clock, fault),
            LAMBDA o :
         /\ Len(o.c) <= MaxCourses
         /\ Len(o.a) <= MaxAssignments
         /\ courses' = o.c
         /\ assignments' = o.a
         /\ last' = [called |-> TRUE, endpoint |-> "process", user |-> user_id,
                     classified |-> process_message(reply), resp |-> o.resp, ran |-> o.ran,
                     handler |-> o.handler, reads |-> o.reads,
                     before |-> [courses |-> courses, assignments |-> assignments]])
    /\ UNCHANGED <<requests, dateCall, gradeCall, kbDocs, kbRag, agentKB, push, clock>>

\* the classifier names a task
ProcessTask ==
    \E i \in DOMAIN Params : \E ps \in Params[i], f \in Faults[i], u \in Users, th \in Threads :
        Process(th, TaskReply(i, ps), u, f)
\* the classifier fails, chats, or names no task the handlers know
ProcessChat ==
    \E reply \in ClassifierReplies, u \in Users, th \in Threads : Process(th, reply, u, NoFault)

\* one request POST /api/agent/grade-submission, from the request to the
\* response.  The submissions table is written by students, outside the
\* program: the row the request finds is any row that refers to a stored
\* assignment, or none.
GradeEndpoint ==
    /\ ~last.called
    /\ \E u \in Users, course_id \in {CourseIdPool[k] : k \in 1..(MaxCourses + 1)},
          found \in {<<>>} \cup {<<[assignment |-> assignments[k]]>> : k \in 1..Len(assignments)},
          text \in {"text", "none", "raises"}, reply \in GraderReplies,
          f \in {NoFault, Fault("courses.select.id"), Fault("submissions.select.id")} :
         last' = [called |-> TRUE, endpoint |-> "grade-submission", user |-> u,
                  course_id |-> course_id, found |-> found, fault |-> f,
                  resp |-> api_grade_submission(u, course_id, found, text, reply, courses, f)]
    /\ UNCHANGED <<requests, dateCall, gradeCall, kbDocs, kbRag, agentKB, push, courses, assignments,
                   clock>>

NextApi ==
    \/ ProcessTask
    \/ ProcessChat
    \/ GradeEndpoint
    \/ Respond

SpecApi == InitApi /\ [][NextApi]_vars

-----------------------------------------------------------------------------
(* The endpoints                                                           *)

GradeRequest == last.called /\ last.endpoint = "grade-submission"

\* the authenticated user is the teacher of the course the request names
RequestByTeacher ==
    \E k \in 1..Len(courses) :
        courses[k].id = last.course_id /\ courses[k].teacher_id = last.user

\* C13: POST /api/agent/grade-submission runs the grading agent only when
\* the user is the teacher of the course named in the request and the
\* submission's assignment belongs to that course; while the datastore
\* answers, a user who is not the teacher gets 403, a teacher whose
\* submission does not exist 404, and a teacher whose submission belongs
\* to an assignment of another course 400; none of these is graded.
C13_GradesOnlyForTeacher ==
    GradeRequest =>
        /\ last.resp.graded =>
              /\ RequestByTeacher
              /\ last.found # <<>>
              /\ last.found[1].assignment.course_id = last.course_id
        /\ last.resp.status \in {400, 403, 404} => ~last.resp.graded
        /\ last.fault = NoFault =>
              /\ ~RequestByTeacher => last.resp.status = 403
              /\ RequestByTeacher /\ last.found = <<>> => last.resp.status = 404
              /\ (/\ RequestByTeacher
                  /\ last.found # <<>>
                  /\ last.found[1].assignment.course_id # last.course_id)
                   => last.resp.status = 400

\* the teacher of a course asks to grade a submission to an assignment of
\* another course, and is refused with 400
C13_Witness ==
    /\ GradeRequest
    /\ RequestByTeacher
    /\ last.found # <<>>
    /\ last.resp.status = 400
    /\ ~last.resp.graded

ProcessRequest == last.called /\ last.endpoint = "process"
ClassifiedAs(intent) == last.classified.d.intent = StrV(intent)
TablesUnchanged ==
    /\ courses = last.before.courses
    /\ assignments = last.before.assignments

\* C14: whatever the classifier and the handler do, POST /api/agent/process
\* answers with a normal AgentResponse: when a handler ran, its success flag
\* is the handler's; when the classifier answers "error", success=false,
\* action_taken="error" and no handler runs; and when building the response
\* raises, the answer is the generic failure with action_taken="error".
C14_AlwaysAgentResponse ==
    ProcessRequest =>
        /\ ~last.resp.exc
        /\ last.resp.status = 200
        /\ last.resp.success \in BOOLEAN
        /\ last.resp.response.t = "str"
        /\ last.ran => last.resp.success = last.handler.success
        /\ ClassifiedAs("error") =>
              /\ ~last.resp.success
              /\ last.resp.action_taken = StrV("error")
              /\ ~last.ran
              /\ TablesUnchanged
        /\ (ClassifiedAs("conversation") /\ "response" \in DOMAIN last.classified.d
              /\ last.classified.d.response.t # "str")
             => last.resp = GenericFailure

\* the classifier answers with a conversation whose response is null:
\* building the AgentResponse raises and the generic failure is returned
C14_Witness ==
    /\ ProcessRequest
    /\ ClassifiedAs("conversation")
    /\ "response" \in DOMAIN last.classified.d
    /\ last.classified.d.response = NoneV
    /\ last.resp = GenericFailure

-----------------------------------------------------------------------------
(* The order of the calls of a knowledge-base push (under SpecKB)          *)

\* the steps of a push, in the order the claim gives them ("build" makes no
\* external call), and the place of a step in that order
PushSteps == <<"rag_delete", "build", "upload", "rag_create", "cleanup", "attach", "return", "done">>
StepNo(pc) == CHOOSE k \in 1..Len(PushSteps) : PushSteps[k] = pc

\* C15: within one push the RAG indices are deleted first, then the new
\* document is uploaded, then its RAG index is requested, then the other
\* documents are deleted, then the new document is attached to the agent:
\* a push moves only forward through these steps, each external effect
\* happens in its own step, and the new document is never deleted.
C15_CallOrder ==
    [][/\ (push.pc \notin {"idle", "done"} /\ push'.pc # push.pc)
            => StepNo(push'.pc) > StepNo(push.pc)
       /\ (push.pc \in {"idle", "done"} /\ push'.pc # push.pc) => push'.pc = "rag_delete"
       /\ (kbDocs' \ kbDocs # {})
            => /\ push.pc = "upload"
               /\ push'.pc = "rag_create"
               /\ kbDocs' = kbDocs \cup {push'.newDoc}
       /\ (kbRag' \ kbRag # {})
            => /\ push.pc = "rag_create"
               /\ push'.pc = "cleanup"
               /\ kbRag' = kbRag \cup {push.newDoc}
       /\ (kbDocs \ kbDocs' # {})
            => /\ push.pc = "cleanup"
               /\ push'.pc = "attach"
               /\ push.newDoc \notin kbDocs \ kbDocs'
               /\ push.newDoc \in kbDocs'
       /\ (kbRag \ kbRag' # {} /\ kbDocs' = kbDocs) => push.pc = "rag_delete"
       /\ (agentKB' # agentKB)
            => /\ push.pc = "attach"
               /\ agentKB' = push.newDoc
               /\ push.newDoc \in kbDocs]_vars

\* a second push has gone through every step: it removed the index and the
\* document of the first push and attached its own document
C15_Witness ==
    /\ push.pc = "done"
    /\ push.ret = "True"
    /\ push.attach = "True"
    /\ push.newDoc = 2
    /\ kbDocs = {2}
    /\ kbRag = {2}
    /\ agentKB = 2

-----------------------------------------------------------------------------
(* Read-only intents (under SpecApi)                                       *)

ReadOnlyRequest ==
    /\ ProcessRequest
    /\ \/ ClassifiedAs("conversation")
       \/ ClassifiedAs("get_info")
       \/ ClassifiedAs("get_submission_count")

\* C16, as the claim states it: processing a request whose intent is
\* conversation, get_info or get_submission_count leaves the tables
\* unchanged, and for conversation no datastore access is made at all.
C16_NoAccessForConversation ==
    /\ ReadOnlyRequest => TablesUnchanged
    /\ (ProcessRequest /\ ClassifiedAs("conversation")) => (~last.ran /\ last.reads = <<>>)

\* C16, amended: processing a request whose intent is conversation,
\* get_info or get_submission_count leaves the tables unchanged; for
\* conversation no handler runs, and the only datastore access is the
\* endpoint's read of the thread's chat_messages.
C16_ReadOnlyIntents ==
    /\ ReadOnlyRequest => TablesUnchanged
    /\ (ProcessRequest /\ ClassifiedAs("conversation"))
         => /\ ~last.ran
            /\ \A k \in 1..Len(last.reads) : last.reads[k] = "chat_messages"

\* a get_info request has been answered by its handler while the tables
\* hold a course and an assignment
C16_Witness ==
    /\ ProcessRequest
    /\ ClassifiedAs("get_info")
    /\ last.ran
    /\ last.handler.success
    /\ courses # <<>>
    /\ assignments # <<>>

-----------------------------------------------------------------------------
(* Specification of two update_assignment requests served at the same      *)
(* time: each request is a task of its own, and between two datastore      *)
(* calls of one request the other request may run and the clock may move.  *)
(* No lock is taken anywhere in handlers.py.                               *)

\* an update that the datastore acknowledges and drops
ApplyUpdate_Ignored(row, update_data) == row

\* .update(update_data).eq("id", id): the columns named in update_data are
\* overwritten, the others keep their stored value
ApplyUpdate(row, update_data) ==
    [f \in DOMAIN row |-> IF f \in DOMAIN update_data THEN update_data[f] ELSE row[f]]

\* lines 328-347: update_data of _update_single_assignment, built at `now`
UpdateData(params, now) ==
    LET new_title == NewTitle(params)
        points == Get(params, "points")
        due_date == Get(params, "due_date")
        status == Get(params, "status")
        fields == {"updated_at"}
                  \cup (IF Truthy(new_title) THEN {"title"} ELSE {})
                  \cup (IF Truthy(points) THEN {"total_points"} ELSE {})
                  \cup (IF Truthy(due_date) THEN {"due_date"} ELSE {})
                  \cup (IF Truthy(status) THEN {"status"} ELSE {})
    IN [f \in fields |->
          CASE f = "updated_at" -> IsoFormat(now)
            [] f = "title" -> new_title.s
            [] f = "total_points" -> points.n
            [] f = "due_date" -> process_date_expression(now, due_date)
            [] f = "status" -> status.s]

\* the instants the clock passes through
RaceClocks == <<DT(2, 14, 30, 25, 7), DT(2, 23, 59, 59, 999999), DT(3, 0, 0, 0, 0)>>

\* the assignment both requests name, with its updated_at column
RaceAssignment ==
    [id |-> AssignmentIdPool[1],
     course_id |-> BulkCourse.id,
     title |-> Txt.Rubric,
     status |-> Lit.draft,
     due_date |-> IsoFormat(AddDays(RaceClocks[1], DefaultDueDays)),
     total_points |-> DefaultPoints,
     rubric |-> NoneV,
     updated_at |-> IsoFormat(RaceClocks[1])]

\* the last request renames the assignment: a lookup after that finds nothing
RaceParams ==
    {[assignment_name |-> StrV(Txt.Rubric), points |-> IntV(BulkPoints)],
     [assignment_name |-> StrV(Txt.Rubric), points |-> IntV(BulkPoints + 1),
      due_date |-> StrV(DateLit.tomorrow)],
     [assignment_name |-> StrV(Txt.Rubric), new_title |-> StrV(Txt.cs500),
      points |-> IntV(BulkPoints + 1), status |-> StrV(Lit.published)]}

\* a request that has just arrived
NewRequest(params, user_id) ==
    [pc |-> "find", params |-> params, user |-> user_id, row |-> [id |-> ""],
     update_data |-> <<>>, wrote |-> 0, res |-> NoRes]

InitRace ==
    /\ dateCall = NoCall
    /\ gradeCall = NoCall
    /\ kbDocs = {}
    /\ kbRag = {}
    /\ agentKB = 0
    /\ push = PushIdle
    /\ clock = RaceClocks[1]
    /\ courses = <<BulkCourse>>
    /\ assignments = <<RaceAssignment>>
    /\ last = NoCall
    /\ \E p1 \in RaceParams, p2 \in RaceParams, u1 \in Users, u2 \in Users :
          requests = <<NewRequest(p1, u1), NewRequest(p2, u2)>>

RaceUnchanged == UNCHANGED <<dateCall, gradeCall, kbDocs, kbRag, agentKB, push, last, clock>>

\* the number of datastore updates executed so far
WritesDone == Cardinality({j \in 1..Len(requests) : requests[j].wrote > 0})

\* a step leaves the requests and the table of `after`
RaceMove(after) ==
    /\ \E next \in {after} :
          /\ requests' = next.requests
          /\ assignments' = next.assignments
    /\ UNCHANGED courses
    /\ RaceUnchanged

Finished(i, res, a) ==
    [requests |-> [requests EXCEPT ![i].pc = "done", ![i].res = res], assignments |-> a]

\* handlers.py 232: the lookup of the assignment
AfterFind(i) ==
    Bind(requests[i], LAMBDA r :
    Bind(_find_assignment(AssignmentIdentifier(r.params), r.user, courses, assignments,
                          NoFault), LAMBDA found :
      IF found.found
      THEN [requests |-> [requests EXCEPT ![i].pc = "check", ![i].row = found.row],
            assignments |-> assignments]
      ELSE [requests |-> [requests EXCEPT ![i].pc = "course"], assignments |-> assignments]))
RaceFind(i) ==
    /\ requests[i].pc = "find"
    /\ RaceMove(AfterFind(i))

\* lines 239-296: no assignment was found, and the identifier is tried as
\* the name of a course; the updates of a course's assignments follow
AfterCourse(i) ==
    Bind(requests[i], LAMBDA r :
    Bind(CourseKeywords(AssignmentIdentifier(r.params).s), LAMBDA keywords :
      IF keywords = <<>> \/ ~_find_course(StrV(keywords), r.user, courses, NoFault).found
      THEN Finished(i, NothingFound(courses, assignments, FALSE).res, assignments)
      ELSE Bind(update_assignment(r.params, r.user, courses, assignments, clock, NoFault),
                LAMBDA rest : Finished(i, rest.res, rest.a))))
RaceCourse(i) ==
    /\ requests[i].pc = "course"
    /\ RaceMove(AfterCourse(i))

\* lines 311-318: the ownership test
AfterCheck(i) ==
    IF OwnerCheck(requests[i].row, requests[i].user, courses, NoFault).owner
    THEN [requests |-> [requests EXCEPT ![i].pc = "build"], assignments |-> assignments]
    ELSE Finished(i, Res(FALSE, "You can only update assignments in your own courses.", NoneV),
                  assignments)
RaceCheck(i) ==
    /\ requests[i].pc = "check"
    /\ RaceMove(AfterCheck(i))

\* lines 320-354: update_data is built from the parameters and datetime.now()
AfterBuild(i) ==
    IF HasChanges(requests[i].params)
    THEN [requests |-> [requests EXCEPT ![i].pc = "write",
                          ![i].update_data = UpdateData(requests[i].params, clock)],
          assignments |-> assignments]
    ELSE Finished(i, Res(FALSE, "I need to know what you want to update about the assignment.",
                         NoneV), assignments)
RaceBuild(i) ==
    /\ requests[i].pc = "build"
    /\ RaceMove(AfterBuild(i))

\* lines 356-376: the datastore update and the result
AfterWrite(i) ==
    Bind(requests[i], LAMBDA r :
      [requests |-> [requests EXCEPT ![i].pc = "done", ![i].wrote = WritesDone + 1,
          ![i].res = IF RowsWhere(assignments, LAMBDA row : row.id = r.row.id) # <<>>
                     THEN Res(TRUE, "Updated assignment.",
                              DictV([assignment_id |-> StrV(UuidText(r.row.id))]))
                     ELSE Res(FALSE, "Failed to update assignment in database.", NoneV)],
       assignments |-> UpdateRow(assignments, r.row.id,
                                 LAMBDA row : ApplyUpdate(row, r.update_data))])
RaceWrite(i) ==
    /\ requests[i].pc = "write"
    /\ RaceMove(AfterWrite(i))

\* one step of request i
RequestStep(i) ==
    \/ RaceFind(i)
    \/ RaceCourse(i)
    \/ RaceCheck(i)
    \/ RaceBuild(i)
    \/ RaceWrite(i)

\* time passes
RaceTick ==
    /\ \E k \in 1..(Len(RaceClocks) - 1) : clock = RaceClocks[k] /\ clock' = RaceClocks[k + 1]
    /\ UNCHANGED <<dateCall, gradeCall, kbDocs, kbRag, agentKB, push, last, courses,
                   assignments, requests>>

NextRace ==
    \/ \E i \in 1..2 : RequestStep(i)
    \/ RaceTick

\* every request is a task that runs on whatever the other one does
SpecRace ==
    /\ InitRace
    /\ [][NextRace]_vars
    /\ WF_vars(RequestStep(1))
    /\ WF_vars(RequestStep(2))

-----------------------------------------------------------------------------
(* Concurrent updates                                                      *)

RaceComplete == requests # <<>> /\ \A i \in 1..Len(requests) : requests[i].pc = "done"

BothWrote == requests # <<>> /\ \A i \in 1..Len(requests) : requests[i].wrote > 0

\* the request whose datastore update executed last
LastWriter == CHOOSE i \in 1..Len(requests) : requests[i].wrote = Len(requests)

WrittenByBoth == DOMAIN requests[1].update_data \cap DOMAIN requests[2].update_data

\* C17: two concurrent update_assignment requests for the same assignment
\* both complete under every interleaving, and every field written by both
\* holds afterwards the value written by the request whose datastore update
\* executed last.
C17_LastWriteWins ==
    /\ <>RaceComplete
    /\ [](RaceComplete /\ BothWrote
            => \A f \in WrittenByBoth :
                 assignments[1][f] = requests[LastWriter].update_data[f])

\* both wrote different points, and the request that wrote last had built
\* its update_data first, so the stored updated_at is the older one
C17_Witness ==
    /\ RaceComplete
    /\ BothWrote
    /\ "total_points" \in WrittenByBoth
    /\ requests[1].update_data.total_points # requests[2].update_data.total_points
    /\ requests[1].wrote = 2
    /\ requests[1].update_data.updated_at = IsoFormat(RaceClocks[1])
    /\ requests[2].update_data.updated_at = IsoFormat(RaceClocks[2])
    /\ assignments[1].updated_at = IsoFormat(RaceClocks[1])

-----------------------------------------------------------------------------
(* Specification of the assignment lookup: two teachers have a course      *)
(* titled "Machine Learning" each, the courses hold up to MaxBulk          *)
(* assignments, and _find_assignment("machine learning assignment") is     *)
(* called again and again, with deletions in between.  A table is the      *)
(* sequence of its rows in the order the datastore returns them, which     *)
(* stays the same as long as nothing is written.                           *)

FindCourse(i) ==
    [id |-> CourseIdPool[i], title |-> Txt.MachineLearning, teacher_id |-> <<"t1", "t2">>[i]]

FindCourseOrders == {<<FindCourse(1)>>, <<FindCourse(1), FindCourse(2)>>,
                     <<FindCourse(2), FindCourse(1)>>}

\* the second title contains the identifier
FindTitles == {Txt.MidtermExam, Txt.ml_assignment}

FindAssignmentRow(i, course_id, title, now) ==
    [BulkAssignment(i, now) EXCEPT !.course_id = course_id, !.title = title]

InitFind ==
    /\ requests = <<>>
    /\ dateCall = NoCall
    /\ gradeCall = NoCall
    /\ kbDocs = {}
    /\ kbRag = {}
    /\ agentKB = 0
    /\ push = PushIdle
    /\ clock = DT(2, 14, 30, 25, 7)
    /\ courses \in FindCourseOrders
    /\ \E n \in 1..MaxBulk :
         \E course \in [1..n -> {CourseIdPool[1], CourseIdPool[2]}], title \in [1..n -> FindTitles] :
            assignments = [i \in 1..n |-> FindAssignmentRow(i, course[i], title[i], clock)]
    /\ last = NoCall

\* one call of _find_assignment; `last` records the result, and the result of
\* the caller's previous call when nothing was written since
FindAssignment(user_id) ==
    /\ last' = [called |-> TRUE, lookup |-> Txt.ml_assignment, user |-> user_id,
                res |-> _find_assignment(StrV(Txt.ml_assignment), user_id, courses,
                                         assignments, NoFault),
                prev |-> IF last.called /\ last.user = user_id THEN <<last.res>> ELSE <<>>]
    /\ UNCHANGED <<requests, dateCall, gradeCall, kbDocs, kbRag, agentKB, push, clock, courses,
                   assignments>>

\* a write between two lookups: the caller deletes the assignment found
FindThenDelete(user_id) ==
    /\ \E o \in {execute("delete_assignment", [assignment_name |-> StrV(Txt.ml_assignment)],
                         user_id, courses, assignments, clock, NoFault)} :
          /\ o.a # assignments
          /\ assignments' = o.a
          /\ courses' = o.c
    /\ last' = NoCall
    /\ UNCHANGED <<requests, dateCall, gradeCall, kbDocs, kbRag, agentKB, push, clock>>

FindCalls == \E u \in Users : FindAssignment(u)
FindWrites == \E u \in Users : FindThenDelete(u)

NextFind ==
    \/ FindCalls
    \/ FindWrites

SpecFind == InitFind /\ [][NextFind]_vars

-----------------------------------------------------------------------------
(* Lookup by course                                                        *)

\* the caller's courses titled "Machine Learning"
CallerCourses ==
    RowsWhere(courses, LAMBDA r : r.title = Txt.MachineLearning /\ r.teacher_id = last.user)

NoTitleContainsLookup ==
    \A i \in 1..Len(assignments) : ~ILikeContains(assignments[i].title, last.lookup)

\* the rows of the caller's course, in the order of the table
RowsOfCallerCourse == RowsWhere(assignments, LAMBDA r : r.course_id = CallerCourses[1].id)

-----------------------------------------------------------------------------
(* The retry loop of the attachment step (under SpecKBLive)                *)

\* the attachment step has returned (a push that fails before it returns
\* without attempting the attachment)
AttachReturned == push.pc \in {"return", "done"} /\ push.attach # "pending"

\* the text of the error holds "502" or "Bad Gateway"
Has502Text(err) == Contains(err, KBLit.c502) \/ Contains(err, KBLit.BadGateway)

\* a step in which a call of the agent-update API returned
SuccessfulAttempt ==
    push.pc = "attach" /\ push'.calls = push.calls + 1 /\ push'.err = <<>>

\* a step in which a call of the agent-update API raised
FailedAttempt ==
    push.pc = "attach" /\ push'.calls = push.calls + 1 /\ push'.err # <<>>

\* C19: the attachment step always terminates: it calls the agent-update
\* API at most 3 times, returns True right after the first successful call,
\* and returns False once 3 attempts have failed or an error that is not
\* retried occurred.
C19_AttachTerminates ==
    /\ (push.pc = "attach") ~> AttachReturned
    /\ [](push.calls <= MaxRetries)
    /\ [][SuccessfulAttempt => (push'.pc = "return" /\ push'.attach = "True")]_vars
    /\ [](AttachReturned => (push.attach = "True" <=> push.err = <<>>))
    /\ []((push.err # <<>> /\ (push.calls = MaxRetries \/ ~Has502Text(push.err)))
            <=> (AttachReturned /\ push.attach = "False"))

\* three calls failed, with the delay slept twice, and False was returned
C19_Witness ==
    /\ push.pc = "return"
    /\ push.calls = MaxRetries
    /\ push.attach = "False"
    /\ push.slept = 2 * RetryDelay

\* C20, as the claim states it: when an attempt other than the third fails
\* with an upstream 5xx error (500, 502, 503, ...) another attempt follows
\* after the delay, and when an attempt fails with any other error no
\* further attempt is made.
C20_RetryOnAny5xx ==
    [][FailedAttempt
         => /\ (Is5xx(push'.err) /\ push'.calls < MaxRetries) => push'.pc = "attach"
            /\ ~Is5xx(push'.err) => push'.pc = "return"]_vars

\* C20, amended: when an attempt other than the third fails with an error
\* whose text holds "502" or "Bad Gateway", another attempt follows after
\* the delay of 20 seconds; when an attempt fails with any other error, a
\* 500 or a 503 among them, or the third attempt fails, no further attempt
\* is made.
C20_RetryOn502Text ==
    /\ [][FailedAttempt
            => IF Has502Text(push'.err) /\ push'.calls < MaxRetries
               THEN push'.pc = "attach"
               ELSE push'.pc = "return"]_vars
    /\ [][(push.pc = "attach" /\ push'.calls = push.calls + 1)
            => push'.slept = push.slept + (IF push.calls > 0 THEN RetryDelay ELSE 0)]_vars
    /\ \A k \in 1..(MaxRetries - 1) :
         (push.pc = "attach" /\ push.calls = k) ~> (push.calls = k + 1)

\* the first call failed with a 502 and was retried after the delay; the
\* second failed with a 503 and was the last
C20_Witness ==
    /\ push.pc = "return"
    /\ push.calls = 2
    /\ push.n502 = 1
    /\ push.err = Txt.e503
    /\ push.slept = RetryDelay
    /\ push.attach = "False"

-----------------------------------------------------------------------------
(* Further properties of the date normalizer (under SpecDate)              *)

\* the days between the call and the date returned
DaysAfterCall == IsoDate(dateCall.iso) - dateCall.now.day

\* C21: for every current weekday and every named weekday W, "next W" returns
\* a date that falls on weekday W and lies between 1 and 7 days after the
\* current date; when today is W the result is exactly 7 days ahead.
C21_NextWeekdayWithinAWeek ==
    \A w \in 1..7 :
        RelativeCall({WeekdayNames[w]})
            => /\ IsoDate(dateCall.iso) % 7 = w - 1
               /\ DaysAfterCall \in 1..7
               /\ (Weekday(dateCall.now) = w - 1 => DaysAfterCall = 7)

\* C21: "next friday" was asked on a Friday afternoon, and the answer is
\* the Friday seven days later
C21_Witness ==
    /\ RelativeCall({DateLit.next_friday})
    /\ Weekday(dateCall.now) = 4
    /\ dateCall.now.hour = 14
    /\ DaysAfterCall = 7
    /\ IsoDate(dateCall.iso) % 7 = 4

\* the inputs of the model that no branch of lines 23-75 can parse: the
\* empty string, arbitrary text, a number in words, a relative day with a
\* time; and the values that are not a str
UnparseableTexts == {<<>>, Txt.garbage, Txt.in_two_days, Txt.tomorrow_5pm}

UnparseableCall ==
    /\ dateCall.called
    /\ \/ dateCall.expr \in NonStrValues
       \/ dateCall.expr.t = "str" /\ dateCall.expr.s \in UnparseableTexts

\* C22: for every input that cannot be parsed (empty strings, arbitrary text
\* and non-string values among them) process_date_expression raises nothing
\* and returns the timestamp of the day after the call at 23:59:59 (the
\* fraction of a second of the call time follows the seconds, as isoformat
\* writes it).
C22_FallbackIsTomorrowEndOfDay ==
    UnparseableCall
        => /\ dateCall.iso = IsoFormat(DT(dateCall.now.day + 1, 23, 59, 59, dateCall.now.micro))
           /\ IsoDate(dateCall.iso) = dateCall.now.day + 1
           /\ SubSeq(dateCall.iso, 2, 4) = <<23, 59, 59>>

\* C22: None was given on an afternoon, and the answer is the next day at
\* 23:59:59
C22_Witness ==
    /\ dateCall.called
    /\ dateCall.expr = NoneV
    /\ dateCall.now.hour = 14
    /\ dateCall.now.micro = 0
    /\ dateCall.iso = <<dateCall.now.day + 1, 23, 59, 59>>

-----------------------------------------------------------------------------
(* agent/mylo.py: MyloAgent.process_message by its inputs.  The classifier  *)
(* is called with the teacher's message and the history of the thread, and  *)
(* the LLM call has one of the outcomes of ClassifierReplies.               *)

\* the string literals of line 368 of agent/mylo.py
MyloLit ==
    [machine_learning |-> <<"m","a","c","h","i","n","e"," ","l","e","a","r","n","i","n","g">>,
     course |-> <<"c","o","u","r","s","e">>]

\* the messages of the teacher
MsgTxt ==
    [ml_course |-> <<"m","a","c","h","i","n","e"," ","l","e","a","r","n","i","n","g"," ","c","o","u","r","s","e">>,
     ML |-> <<"M","a","c","h","i","n","e"," ","L","e","a","r","n","i","n","g">>,
     Course_ML |-> <<"C","o","u","r","s","e",":"," ","M","a","c","h","i","n","e"," ","L","e","a","r","n","i","n","g">>,
     my_course |-> <<"m","y"," ","c","o","u","r","s","e">>,
     machine |-> <<"m","a","c","h","i","n","e">>,
     hello |-> <<"h","e","l","l","o">>]

\* line 368 with the second operand left out
KeywordFallback_AnyMention(message, thread_history) ==
    Contains(Lower(message), MyloLit.machine_learning)

\* line 368: "machine learning" in message.lower() and
\*           ("course" in message.lower() or thread_history)
KeywordFallback(message, thread_history) ==
    /\ Contains(Lower(message), MyloLit.machine_learning)
    /\ \/ Contains(Lower(message), MyloLit.course)
       \/ Truthy(thread_history)

\* process_message(message, user_id, thread_history) for one outcome of the
\* LLM call: the branch of line 368 is taken by the message and the history
Classify(message, thread_history, reply) ==
    IF reply.kind = "text"
    THEN process_message([kind |-> "text", ml |-> KeywordFallback(message, thread_history)])
    ELSE process_message(reply)

ClassifyMessages ==
    {MsgTxt.ml_course, MsgTxt.ML, MsgTxt.Course_ML, MsgTxt.my_course, MsgTxt.machine, MsgTxt.hello, <<>>}

\* thread_history: None, an empty list, or the earlier messages of the thread
ThreadHistories ==
    {NoneV, ListV(<<>>), ListV(<<DictV([message |-> StrV(MsgTxt.hello)])>>)}

\* one call of process_message, from the call to its result
ClassifyWith(replies) ==
    /\ ~last.called
    /\ \E message \in ClassifyMessages, history \in ThreadHistories, reply \in replies :
         last' = [called |-> TRUE, endpoint |-> "classify", message |-> message,
                  history |-> history, reply |-> reply,
                  result |-> Classify(message, history, reply)]
    /\ UNCHANGED <<requests, dateCall, gradeCall, kbDocs, kbRag, agentKB, push, courses, assignments,
                   clock>>

\* the LLM call raises or returns no content
ClassifyFailed ==
    ClassifyWith({r \in ClassifierReplies : r.kind \in {"api_error", "none"}})
\* the reply is a JSON text
ClassifyJson == ClassifyWith({r \in ClassifierReplies : r.kind = "json"})
\* the reply is a text json.loads rejects
ClassifyText == ClassifyWith({[kind |-> "text"]})

NextClassify ==
    \/ ClassifyFailed
    \/ ClassifyJson
    \/ ClassifyText
    \/ Respond

SpecClassify == InitApi /\ [][NextClassify]_vars

-----------------------------------------------------------------------------
(* Properties of the classifier (under SpecClassify)                       *)

ClassifyCall == last.called /\ last.endpoint = "classify"

\* the messages that hold "machine learning", and those that hold "course",
\* in any case of the letters
NamesMachineLearning == {MsgTxt.ml_course, MsgTxt.ML, MsgTxt.Course_ML}
NamesCourse == {MsgTxt.ml_course, MsgTxt.Course_ML, MsgTxt.my_course}

\* the keyword fallback and the generic fallback of lines 370-386
IsKeywordFallback(result) ==
    /\ result.d.intent = StrV("create_assignment")
    /\ result.d.parameters.d.course = StrV(Txt.MachineLearning)
    /\ result.d.parameters.d.title = StrV(Lit.NewAssignment)
IsGenericFallback(result) ==
    /\ result.d.intent = StrV("conversation")
    /\ result.d.parameters = DictV(EmptyDict)

\* C23: process_message never raises and always returns a structured result
\* carrying an intent: when the LLM call fails the intent is "error"; when
\* the reply is not parseable JSON the result is the keyword fallback
\* (create_assignment for course "Machine Learning") exactly when the message
\* holds "machine learning" and either holds "course" or the thread history
\* is not empty, and the generic conversation result otherwise.
C23_ClassifierAlwaysAnswers ==
    ClassifyCall
        => /\ last.result.t = "dict"
           /\ "intent" \in DOMAIN last.result.d
           /\ last.reply.kind = "api_error" => last.result.d.intent = StrV("error")
           /\ last.reply.kind = "text"
                => IF /\ last.message \in NamesMachineLearning
                      /\ \/ last.message \in NamesCourse
                         \/ (last.history.t = "list" /\ Len(last.history.items) > 0)
                   THEN IsKeywordFallback(last.result)
                   ELSE IsGenericFallback(last.result)

\* C23: "Machine Learning" alone, in a thread with a history, answered by a
\* text that is no JSON: the keyword fallback
C23_Witness ==
    /\ ClassifyCall
    /\ last.reply.kind = "text"
    /\ last.message = MsgTxt.ML
    /\ last.history.t = "list"
    /\ Len(last.history.items) = 1
    /\ IsKeywordFallback(last.result)

-----------------------------------------------------------------------------
(* Specification of the requests that name a course with several            *)
(* assignments: update_assignment and delete_assignment, on the course of   *)
(* InitBulk                                                                 *)

BulkDeleteParams == {[assignment_name |-> StrV(Txt.cs500)], [title |-> StrV(Txt.cs500)]}

BulkDelete ==
    \E params \in BulkDeleteParams, u \in Users, ids \in SUBSET AssignmentIds :
        BulkExecute("delete_assignment", params, u, ids)

NextCourseWide ==
    \/ BulkUpdate
    \/ BulkDelete
    \/ Respond

SpecCourseWide == InitBulk /\ [][NextCourseWide]_vars

\* C24, as the claim states it: when the identifier of an update_assignment
\* or delete_assignment request matches no assignment directly but resolves
\* to a course of the caller that has more than one assignment, the handler
\* changes or deletes no assignment and returns a result that asks which
\* assignment is meant.
C24_AsksWhichAssignment ==
    (BulkCall /\ last.intent \in {"update_assignment", "delete_assignment"} /\ Len(last.before) > 1)
        => /\ assignments = last.before
           /\ ~last.res.success
           /\ last.res.data.t = "dict"
           /\ "assignments" \in DOMAIN last.res.data.d

-----------------------------------------------------------------------------
(* Specification of the requests that name the course of an assignment:     *)
(* the five handlers of lines 133-140 of agent/mylo.py, called with the     *)
(* course in course_name, as the classifier is told to send it, or in       *)
(* assignment_name, on a course with one assignment                         *)

CourseNameIntents ==
    {"update_rubric", "publish_assignment", "update_assignment", "delete_assignment",
     "get_submission_count"}

\* what a request carries besides the name of the course
CourseNameExtras ==
    [update_rubric |-> [rubric_text |-> StrV(Txt.Rubric)],
     publish_assignment |-> EmptyParams,
     update_assignment |-> [points |-> IntV(BulkPoints)],
     delete_assignment |-> EmptyParams,
     get_submission_count |-> EmptyParams]

\* the parameters with the key k holding the name of the course
NamedBy(k, intent) == Put(CourseNameExtras[intent], k, StrV(Txt.cs500))

InitCourseName ==
    /\ requests = <<>>
    /\ dateCall = NoCall
    /\ gradeCall = NoCall
    /\ kbDocs = {}
    /\ kbRag = {}
    /\ agentKB = 0
    /\ push = PushIdle
    /\ clock \in HandlerClocks
    /\ courses = <<BulkCourse>>
    /\ assignments = <<BulkAssignment(1, clock)>>
    /\ last = NoCall

\* one request of the intent, by either teacher
CourseNameRequest(intent) ==
    \E k \in {"course_name", "assignment_name"}, u \in Users :
        BulkExecute(intent, NamedBy(k, intent), u, {})

NextCourseName ==
    \/ CourseNameRequest("update_rubric")
    \/ CourseNameRequest("publish_assignment")
    \/ CourseNameRequest("update_assignment")
    \/ CourseNameRequest("delete_assignment")
    \/ CourseNameRequest("get_submission_count")
    \/ Respond

SpecCourseName == InitCourseName /\ [][NextCourseName]_vars

\* the owner's request carried course_name and no assignment_name,
\* assignment_id or title, and the course had one assignment
CourseNameCall ==
    /\ BulkCall
    /\ last.intent \in CourseNameIntents
    /\ "course_name" \in DOMAIN last.params
    /\ DOMAIN last.params \cap {"assignment_name", "assignment_id", "title"} = {}
    /\ Len(last.before) = 1

\* C25, as the claim states it: when the parameters of update_rubric,
\* publish_assignment, update_assignment, delete_assignment or
\* get_submission_count contain course_name (and no assignment_name,
\* assignment_id or title), the handler finds the assignments of the caller's
\* course with that name and acts on the single assignment found, rather
\* than failing for lack of an identifier.
C25_CourseNameResolves ==
    CourseNameCall
        => /\ last.res.success
           /\ last.intent = "delete_assignment" => assignments = <<>>
           /\ last.intent = "publish_assignment" => assignments[1].status = Lit.published
           /\ last.intent = "update_assignment" => assignments[1].total_points = BulkPoints
           /\ last.intent = "update_rubric" => assignments[1].rubric = StrV(Txt.Rubric)

-----------------------------------------------------------------------------
(* The due date of a new assignment (under Spec)                           *)

\* create_assignment has inserted an assignment: the last row of the table
CreatedAssignment ==
    /\ last.called
    /\ last.intent = "create_assignment"
    /\ last.inserted.assignments = 1

\* C26, as the claim states it: the assignment inserted by create_assignment
\* has due_date equal to the normalized value of the due_date parameter when
\* one is supplied, and equal to the creation time plus 7 days only when no
\* due_date parameter is supplied.
C26_DueDateFromParameter ==
    CreatedAssignment
        => assignments[Len(assignments)].due_date
             = IF "due_date" \in DOMAIN last.params
               THEN process_date_expression(clock, last.params.due_date)
               ELSE IsoFormat(AddDays(clock, DefaultDueDays))

-----------------------------------------------------------------------------
(* Specification of two concurrent create_assignment requests.  Each        *)
(* request is a sequence of datastore calls (the exact select of line 152,  *)
(* the partial select of line 156, the insert of the course of line 178,    *)
(* the insert of the assignment of line 99), and the calls of the two       *)
(* requests reach the datastore in any order.  Nothing in the repository    *)
(* makes the title of a course unique.                                      *)

CreateRaceCourses == {Txt.CS500, Txt.Rubric}

\* a course of the other teacher that may be there from the start
CreateRaceOther == [id |-> CourseIdPool[1], title |-> Txt.CS500, teacher_id |-> "t2"]

\* create_assignment(params, user_id) about to call _find_or_create_course;
\* `existed` tells whether the teacher had a course of that name at the start
NewCreate(course, user_id, c) ==
    [pc |-> "exact", params |-> [course |-> StrV(course)], user |-> user_id,
     cleaned |-> CleanCourseName(Upper(course)), course_id |-> "", assignment_id |-> "",
     existed |-> OwnedBy(CoursesByTitle(c, CleanCourseName(Upper(course)), NoFault).rows, user_id) # <<>>]

InitCreateRace ==
    /\ dateCall = NoCall
    /\ gradeCall = NoCall
    /\ kbDocs = {}
    /\ kbRag = {}
    /\ agentKB = 0
    /\ push = PushIdle
    /\ clock = RaceClocks[1]
    /\ courses \in {<<>>, <<CreateRaceOther>>}
    /\ assignments = <<>>
    /\ last = NoCall
    /\ \E k1 \in CreateRaceCourses, k2 \in CreateRaceCourses, u1 \in Users, u2 \in Users :
          requests = <<NewCreate(k1, u1, courses), NewCreate(k2, u2, courses)>>

\* lines 158-163: the rows of the caller among those the select returned;
\* the first one is the course, none leads to the insert
AfterSelect(i, rows) ==
    LET mine == OwnedBy(rows, requests[i].user)
    IN IF mine # <<>>
       THEN [requests EXCEPT ![i].pc = "assignment", ![i].course_id = mine[1].id]
       ELSE [requests EXCEPT ![i].pc = "course"]

\* line 152: .ilike("title", cleaned_course_name)
CreateSelectExact(i) ==
    /\ requests[i].pc = "exact"
    /\ \E rows \in {RowsWhere(courses, LAMBDA r : ILike(r.title, requests[i].cleaned))} :
          requests' = IF rows = <<>> THEN [requests EXCEPT ![i].pc = "partial"]
                      ELSE AfterSelect(i, rows)
    /\ UNCHANGED <<courses, assignments>>
    /\ RaceUnchanged

\* line 156: .ilike("title", f"%{cleaned_course_name}%")
CreateSelectPartial(i) ==
    /\ requests[i].pc = "partial"
    /\ \E rows \in {RowsWhere(courses, LAMBDA r : ILikeContains(r.title, requests[i].cleaned))} :
          requests' = AfterSelect(i, rows)
    /\ UNCHANGED <<courses, assignments>>
    /\ RaceUnchanged

\* lines 169-185: the insert of the course
CreateInsertCourse(i) ==
    /\ requests[i].pc = "course"
    /\ \E id \in {FreshId(CourseIdPool, courses)} :
          /\ courses' = Append(courses, [id |-> id, title |-> requests[i].cleaned,
                                         teacher_id |-> requests[i].user])
          /\ requests' = [requests EXCEPT ![i].pc = "assignment", ![i].course_id = id]
    /\ UNCHANGED assignments
    /\ RaceUnchanged

\* lines 84-99: the insert of the assignment
CreateInsertAssignment(i) ==
    /\ requests[i].pc = "assignment"
    /\ \E id \in {FreshId(AssignmentIdPool, assignments)} :
          /\ assignments' = Append(assignments,
                                   [id |-> id,
                                    course_id |-> requests[i].course_id,
                                    title |-> Lit.NewAssignment,
                                    status |-> Lit.draft,
                                    due_date |-> IsoFormat(AddDays(clock, DefaultDueDays)),
                                    total_points |-> DefaultPoints,
                                    rubric |-> NoneV])
          /\ requests' = [requests EXCEPT ![i].pc = "done", ![i].assignment_id = id]
    /\ UNCHANGED courses
    /\ RaceUnchanged

CreateStep(i) ==
    \/ CreateSelectExact(i)
    \/ CreateSelectPartial(i)
    \/ CreateInsertCourse(i)
    \/ CreateInsertAssignment(i)

NextCreateRace == \E i \in 1..2 : CreateStep(i)

SpecCreateRace == InitCreateRace /\ [][NextCreateRace]_vars

-----------------------------------------------------------------------------
(* Concurrent creations                                                    *)

\* both requests are of the same teacher and name the same course, which
\* the teacher did not have, and both have completed
SameNewCourseCreated ==
    /\ RaceComplete
    /\ requests[1].user = requests[2].user
    /\ requests[1].params = requests[2].params
    /\ ~requests[1].existed

\* the courses of the teacher of request i that carry the name it gave
CoursesNamed(i) ==
    RowsWhere(courses, LAMBDA r : r.teacher_id = requests[i].user /\ r.title = requests[i].cleaned)

AssignmentOf(i) == RowsWhere(assignments, LAMBDA r : r.id = requests[i].assignment_id)[1]

\* C27, as the claim states it: when two create_assignment requests from the
\* same teacher naming the same not-yet-existing course run concurrently,
\* under every interleaving of their find and insert steps exactly one course
\* with that title is created for the teacher and both new assignments have
\* that course's id as course_id.
C27_OneCourseForBoth ==
    SameNewCourseCreated
        => /\ Len(CoursesNamed(1)) = 1
           /\ AssignmentOf(1).course_id = CoursesNamed(1)[1].id
           /\ AssignmentOf(2).course_id = CoursesNamed(1)[1].id

-----------------------------------------------------------------------------
(* Specification of two concurrent calls of                                 *)
(* update_knowledge_base_all_students for the same agent.  Each call is the *)
(* sequence of its calls to the platform, and the calls of the two reach    *)
(* the platform in any order.  The platform answers every call; a call that *)
(* names a document deleted meanwhile fails (`failed`), except the update   *)
(* of the agent, which the platform may accept or reject.                   *)

NewPush == [pc |-> "rag_delete", newDoc |-> 0, listed |-> {}, failed |-> FALSE, ret |-> "pending"]

InitKBRace ==
    /\ dateCall = NoCall
    /\ gradeCall = NoCall
    /\ push = PushIdle
    /\ clock = RaceClocks[1]
    /\ courses = <<>>
    /\ assignments = <<>>
    /\ last = NoCall
    /\ \E old \in {{}, {1}} :
          /\ kbDocs = old
          /\ kbRag \in SUBSET old
          /\ agentKB \in old \cup {0}
    /\ requests = <<NewPush, NewPush>>

KBRaceUnchanged == UNCHANGED <<dateCall, gradeCall, push, clock, courses, assignments, last>>

\* the id the platform gives the next document: one it never gave before
NextDocId ==
    LET given == kbDocs \cup {agentKB} \cup {requests[j].newDoc : j \in 1..Len(requests)}
    IN 1 + (CHOOSE m \in given \cup {0} : \A n \in given : n <= m)

\* step 1, _delete_existing_rag_indices (159-193)
PushDeleteRagIndices(i) ==
    /\ requests[i].pc = "rag_delete"
    /\ kbRag' = {}
    /\ requests' = [requests EXCEPT ![i].pc = "build"]
    /\ UNCHANGED <<kbDocs, agentKB>>
    /\ KBRaceUnchanged

\* step 2, build_context_for_all_students (110-111): reads the datastore
PushBuildContext(i) ==
    /\ requests[i].pc = "build"
    /\ requests' = [requests EXCEPT ![i].pc = "upload"]
    /\ UNCHANGED <<kbDocs, kbRag, agentKB>>
    /\ KBRaceUnchanged

\* step 4, documents.create_from_text (131-136)
PushUpload(i) ==
    /\ requests[i].pc = "upload"
    /\ NextDocId \in DocIds
    /\ kbDocs' = kbDocs \cup {NextDocId}
    /\ requests' = [requests EXCEPT ![i].pc = "rag_create", ![i].newDoc = NextDocId]
    /\ UNCHANGED <<kbRag, agentKB>>
    /\ KBRaceUnchanged

\* step 5, _create_rag_index (195-217): an exception is logged
PushCreateRagIndex(i) ==
    /\ requests[i].pc = "rag_create"
    /\ IF requests[i].newDoc \in kbDocs
       THEN /\ kbRag' = kbRag \cup {requests[i].newDoc}
            /\ requests' = [requests EXCEPT ![i].pc = "list"]
       ELSE /\ kbRag' = kbRag
            /\ requests' = [requests EXCEPT ![i].pc = "list", ![i].failed = TRUE]
    /\ UNCHANGED <<kbDocs, agentKB>>
    /\ KBRaceUnchanged

\* step 6, line 227: knowledge_base.list()
PushListDocuments(i) ==
    /\ requests[i].pc = "list"
    /\ requests' = [requests EXCEPT ![i].pc = "delete", ![i].listed = kbDocs]
    /\ UNCHANGED <<kbDocs, kbRag, agentKB>>
    /\ KBRaceUnchanged

\* step 6, lines 230-240: documents.delete(force=True) of every listed
\* document other than the new one; a failed delete is logged
PushDeleteDocuments(i) ==
    /\ requests[i].pc = "delete"
    /\ \E old \in {CleanupCandidates(requests[i].listed, requests[i].newDoc)} :
          /\ kbDocs' = kbDocs \ old
          /\ kbRag' = kbRag \ old
          /\ requests' = [requests EXCEPT ![i].pc = "attach",
                                          ![i].failed = @ \/ ~(old \subseteq kbDocs)]
    /\ UNCHANGED agentKB
    /\ KBRaceUnchanged

\* step 7, agents.update (267-283), and line 153: return True.  The platform
\* accepts the id of a document it holds; that of a deleted one it accepts
\* or rejects (an error other than a 502: no retry)
PushAttach(i) ==
    /\ requests[i].pc = "attach"
    /\ \/ /\ agentKB' = requests[i].newDoc
          /\ requests' = [requests EXCEPT ![i].pc = "done", ![i].ret = "True"]
       \/ /\ requests[i].newDoc \notin kbDocs
          /\ agentKB' = agentKB
          /\ requests' = [requests EXCEPT ![i].pc = "done", ![i].ret = "True", ![i].failed = TRUE]
    /\ UNCHANGED <<kbDocs, kbRag>>
    /\ KBRaceUnchanged

PushStep(i) ==
    \/ PushDeleteRagIndices(i)
    \/ PushBuildContext(i)
    \/ PushUpload(i)
    \/ PushCreateRagIndex(i)
    \/ PushListDocuments(i)
    \/ PushDeleteDocuments(i)
    \/ PushAttach(i)

NextKBRace == \E i \in 1..2 : PushStep(i)

SpecKBRace == InitKBRace /\ [][NextKBRace]_vars

-----------------------------------------------------------------------------
(* Concurrent pushes                                                       *)

\* both pushes have completed and no call to the platform failed
BothPushed ==
    /\ RaceComplete
    /\ \A i \in 1..Len(requests) : ~requests[i].failed /\ requests[i].ret = "True"

\* C28, as the claim states it: after two concurrent knowledge-base pushes
\* for the same agent have both completed, under every interleaving of their
\* steps and with every external call succeeding, the document attached to
\* the agent's configuration still exists in the knowledge base.
C28_AttachedDocumentExists ==
    BothPushed => agentKB \in kbDocs

-----------------------------------------------------------------------------
(* Specification of the course lookup: the two teachers may each have a     *)
(* course titled "CS500", listed in either order, and _find_course and      *)
(* _find_or_create_course are called by either teacher with a title, a      *)
(* part of it, the title followed by " course", or the id of a course       *)

ResolveCourse(i) == [id |-> CourseIdPool[i], title |-> Txt.CS500, teacher_id |-> <<"t1", "t2">>[i]]

ResolveTables ==
    {<<>>, <<ResolveCourse(2)>>, <<ResolveCourse(1), ResolveCourse(2)>>,
     <<ResolveCourse(2), ResolveCourse(1)>>}

ResolveNames == {Txt.CS500, Txt.cs500, Txt.cs500 \o Lit.sp_course, <<"5">>, Txt.midterm}

ResolveIdentifiers == ResolveNames \cup {UuidText(CourseIdPool[i]) : i \in 1..2}

InitResolve ==
    /\ requests = <<>>
    /\ dateCall = NoCall
    /\ gradeCall = NoCall
    /\ kbDocs = {}
    /\ kbRag = {}
    /\ agentKB = 0
    /\ push = PushIdle
    /\ clock = DT(2, 14, 30, 25, 7)
    /\ courses \in ResolveTables
    /\ assignments = <<>>
    /\ last = NoCall

\* one call _find_course(identifier, db_client, user_id)
ResolveFind ==
    /\ ~last.called
    /\ \E identifier \in ResolveIdentifiers, u \in Users :
          last' = [called |-> TRUE, op |-> "_find_course", user |-> u, identifier |-> identifier,
                   res |-> _find_course(StrV(identifier), u, courses, NoFault),
                   before |-> courses]
    /\ UNCHANGED <<requests, dateCall, gradeCall, kbDocs, kbRag, agentKB, push, clock, courses,
                   assignments>>

\* one call _find_or_create_course(course_code, user_id, db_client)
ResolveFindOrCreate ==
    /\ ~last.called
    /\ \E course_code \in ResolveNames, u \in Users :
       \E o \in {_find_or_create_course(course_code, u, courses, NoFault)} :
          /\ Len(o.c) <= MaxCourses
          /\ courses' = o.c
          /\ last' = [called |-> TRUE, op |-> "_find_or_create_course", user |-> u,
                      identifier |-> course_code, id |-> o.id, before |-> courses]
    /\ UNCHANGED <<requests, dateCall, gradeCall, kbDocs, kbRag, agentKB, push, clock, assignments>>

NextResolve ==
    \/ ResolveFind
    \/ ResolveFindOrCreate
    \/ Respond

SpecResolve == InitResolve /\ [][NextResolve]_vars

-----------------------------------------------------------------------------
(* The owner filter of the course lookup (under SpecResolve)               *)

\* C29: _find_course called with a user_id returns either none or a stored
\* course whose teacher_id equals that user_id, by id lookup or by name
\* match, and _find_or_create_course returns either none or the id of a
\* stored course whose teacher_id equals the caller, never the id of another
\* teacher's course even when that course's title matches.
C29_OwnerFilter ==
    /\ (last.called /\ last.op = "_find_course" /\ last.res.found)
          => /\ last.res.row.teacher_id = last.user
             /\ \E i \in 1..Len(courses) : courses[i] = last.res.row
    /\ (last.called /\ last.op = "_find_or_create_course" /\ last.id # "")
          => \E i \in 1..Len(courses) :
                courses[i].id = last.id /\ courses[i].teacher_id = last.user

\* C29: teacher t1 asked for "cs500" while only t2 had a course CS500: a
\* course of t1's own was created and its id returned
C29_Witness ==
    /\ last.called
    /\ last.op = "_find_or_create_course"
    /\ last.user = "t1"
    /\ last.identifier = Txt.cs500
    /\ last.before = <<ResolveCourse(2)>>
    /\ Len(courses) = 2
    /\ courses[2].id = last.id
    /\ courses[2].teacher_id = "t1"

-----------------------------------------------------------------------------
(* A push that fails for lack of a context (under SpecKB)                  *)

\* update_knowledge_base_all_students returned False at line 115:
\* build_context_for_all_students returned None (course not found, or no
\* enrolled student)
ContextNotBuilt == push.pc = "done" /\ push.ret = "False" /\ push.context = "None"

\* C30, as the claim states it: when update_knowledge_base_all_students
\* returns False because the course context cannot be built, the external
\* knowledge base is left exactly as it was before the call: no document is
\* uploaded or deleted, no RAG index is deleted or created, and the agent's
\* configuration is unchanged.
C30_KnowledgeBaseUntouched ==
    ContextNotBuilt => KBState(kbDocs, kbRag, agentKB) = push.before

\* C30, amended: when update_knowledge_base_all_students returns False
\* because the course context cannot be built, no document is uploaded or
\* deleted, no RAG index is created and the agent's configuration is
\* unchanged; RAG indices of the documents may have been deleted, since the
\* indices are deleted before the context is built.
C30_OnlyRagIndicesDeleted ==
    ContextNotBuilt
        => /\ kbDocs = push.before.docs
           /\ agentKB = push.before.agent
           /\ kbRag \subseteq push.before.rag

\* C30: the context could not be built for a push that found a document
\* with its RAG index attached to the agent: the document is still there and
\* attached, its index is gone
C30_Witness ==
    /\ ContextNotBuilt
    /\ push.before.docs # {}
    /\ push.before.rag = push.before.docs
    /\ push.before.agent \in push.before.docs
    /\ kbDocs = push.before.docs
    /\ agentKB = push.before.agent
    /\ kbRag = {}

=============================================================================
